---- MODULE Spec2Model ----
(***************************************************************************)
(* transbasket: the translation cache (facade, text backend, SQLite        *)
(* backend), the /translate request handler that consults it, the cache    *)
(* background thread, the SIGHUP handler, start-up from a cache file and   *)
(* server teardown.                                                        *)
(*                                                                         *)
(* Every facade operation is two steps: the thread takes the rwlock and    *)
(* the backend operation runs (one step), then the thread releases the     *)
(* lock (second step).  What a handler reads through its `cached` pointer  *)
(* outside the facade is a step of its own, so other threads can move in   *)
(* between exactly where the C code lets them.                             *)
(***************************************************************************)
EXTENDS Integers, Sequences, FiniteSets, TLC

(***************************************************************************)
(* Bounds of the model.                                                    *)
(***************************************************************************)
MaxRequests == 4      \* /translate requests of a run of the request handlers alone
MaxLifeRequests == 2  \* /translate requests of a run of the whole server
MaxSeqRequests == 5   \* /translate requests of a run of one client alone
MaxDays == 2          \* the wall clock advances at most this many days
MaxSighup == 1        \* SIGHUP signals delivered in one run
MaxLoadRequests == 2  \* /translate requests of a run that starts from a cache file
MaxFileLines == 2     \* lines of the cache file found at start-up
MaxSigRequests == 2   \* /translate requests of a run with SIGHUP on any thread
MaxIdleIter == 1      \* maintainer iterations stepped one by one before the
                      \* remaining idle ones are taken together
MaxMigrateLines == 3  \* entries of the text cache handed to cache_tool migrate
MaxElapsed == 9000    \* seconds the background thread counts up to when it runs
                      \* alone and no cleanup falls due
MaxTranslateRequests == 3   \* requests of the client of SpecTranslate

(***************************************************************************)
(* Program constants.                                                      *)
(***************************************************************************)
save_interval == 5
DaySeconds == 24 * 60 * 60
MinCleanupInterval == 3600

Handlers == {"h1", "h2"}
Threads == Handlers \cup {"maint", "main"}

\* What the external translator may answer for the one source text.
Translations == {"Hello", "Hi"}
\* openai_translate's result for an answer without message or content.
NothingContents == "nothing contents"
\* What openai_translate can return as a translation.
Results == Translations \cup {NothingContents}
\* The (from, to, text) triples clients send.
Requests == {<<"kor", "eng", "annyeong">>}

NoThread == "none"
NULL == [kind |-> "null"]
\* A char * that is NULL, or not set yet.
NoText == "none"
Ref(id) == [kind |-> "ref", id |-> id]
Copy(e) == [kind |-> "copy", entry |-> e]

Max(a, b) == IF a >= b THEN a ELSE b

(***************************************************************************)
(* trans_cache_calculate_hash: SHA-256 over from "|" to "|" text.  The     *)
(* digest is represented by the byte string it is computed from.           *)
(***************************************************************************)
trans_cache_calculate_hash(from_lang, to_lang, text) ==
    from_lang \o "|" \o to_lang \o "|" \o text

Hashes == {trans_cache_calculate_hash(r[1], r[2], r[3]) : r \in Requests}

\* Index of the first entry with this hash / this id, 0 when there is none.
IndexOfHash(es, hash) ==
    IF \E i \in 1..Len(es) : es[i].hash = hash
    THEN CHOOSE i \in 1..Len(es) :
            es[i].hash = hash /\ \A j \in 1..(i - 1) : es[j].hash # hash
    ELSE 0

IndexOfId(es, id) ==
    IF \E i \in 1..Len(es) : es[i].id = id
    THEN CHOOSE i \in 1..Len(es) :
            es[i].id = id /\ \A j \in 1..(i - 1) : es[j].id # id
    ELSE 0

\* An entry inserted with count 2.
NewEntry_twice(id, from_lang, to_lang, source_text, translated_text, t) ==
    [id |-> id,
     hash |-> trans_cache_calculate_hash(from_lang, to_lang, source_text),
     from_lang |-> from_lang, to_lang |-> to_lang,
     source_text |-> source_text, translated_text |-> translated_text,
     count |-> 2, last_used |-> t, created_at |-> t]

NewEntry(id, from_lang, to_lang, source_text, translated_text, t) ==
    [id |-> id,
     hash |-> trans_cache_calculate_hash(from_lang, to_lang, source_text),
     from_lang |-> from_lang, to_lang |-> to_lang,
     source_text |-> source_text, translated_text |-> translated_text,
     count |-> 1, last_used |-> t, created_at |-> t]


(***************************************************************************)
(* days_threshold * 24 * 60 * 60 is an int product.  It is kept here in    *)
(* units of 128 seconds (24 * 60 * 60 = 675 * 128 and 2^32 = 2^25 * 128),  *)
(* which is exact and stays within TLC's integers.          From           *)
(* days_threshold = 24856 on, the product exceeds INT_MAX, which is        *)
(* undefined behaviour: a build that multiplies in 32 bits wraps it        *)
(* around ("wraps"), a build that has widened or folded the expression     *)
(* gets the mathematical value ("exact").  `ub` names which.               *)
(***************************************************************************)
DaysInSeconds128(days_threshold, ub) ==
    LET exact == days_threshold * 675
    IN  IF ub = "wraps" THEN ((exact + 2^24) % 2^25) - 2^24 ELSE exact

\* last_used < threshold_time, threshold_time = now - (days_threshold * 24 * 60 * 60)
\* a time_t: x < t - 128 * u  iff  (t - x - 1) \div 128 >= u.
OlderThan(last_used, t, days_threshold, ub) ==
    (t - last_used - 1) \div 128 >= DaysInSeconds128(days_threshold, ub)

\* A compaction that keeps every entry.
SelectKept_all(es, t, days_threshold, ub) == es

SelectKept(es, t, days_threshold, ub) ==
    SelectSeq(es, LAMBDA e : ~OlderThan(e.last_used, t, days_threshold, ub))

(***************************************************************************)
(* Text backend.  ctx = [entries, next_id].  A CacheEntry * handed out by  *)
(* lookup is Ref(id): it designates the entry itself, which stays in       *)
(* ctx.entries until cleanup frees it.  A Ref whose entry has been freed   *)
(* dangles: a write through it lands in freed memory and changes no live   *)
(* entry.                                                                  *)
(***************************************************************************)
\* A lookup that counts the use as well.
text_backend_lookup_counting(c, from_lang, to_lang, text, t) ==
    LET hash == trans_cache_calculate_hash(from_lang, to_lang, text)
        i == IndexOfHash(c.entries, hash)
    IN  IF i = 0
        THEN [ctx |-> c, result |-> NULL]
        ELSE [ctx |-> [c EXCEPT !.entries[i].last_used = t,
                                !.entries[i].count = @ + 1],
              result |-> Ref(c.entries[i].id)]

text_backend_lookup(c, from_lang, to_lang, text, t) ==
    LET hash == trans_cache_calculate_hash(from_lang, to_lang, text)
        i == IndexOfHash(c.entries, hash)
    IN  IF i = 0
        THEN [ctx |-> c, result |-> NULL]
        ELSE [ctx |-> [c EXCEPT !.entries[i].last_used = t],
              result |-> Ref(c.entries[i].id)]

\* int: INT_MAX and INT_MIN.
IntMax == 2147483647
IntMin == -IntMax - 1

\* entry->id + 1 in int.  At INT_MAX the addition overflows; the add
\* instruction gcc -O2 emits for it wraps to INT_MIN.  (The other outcome a
\* build has for it, a trap, is StartupAbort.)
IntSucc(x) == IF x = IntMax THEN IntMin ELSE x + 1

text_backend_add(c, from_lang, to_lang, source_text, translated_text, t) ==
    [ctx |-> [entries |-> Append(c.entries,
                  NewEntry(c.next_id, from_lang, to_lang, source_text,
                           translated_text, t)),
              next_id |-> IntSucc(c.next_id)],
     result |-> 0]

\* update_count that touches last_used and leaves count alone.
text_backend_update_count_touch(c, entry, t) ==
    LET i == IndexOfId(c.entries, entry.id)
    IN  IF i = 0
        THEN [ctx |-> c, result |-> 0, entry |-> entry]
        ELSE [ctx |-> [c EXCEPT !.entries[i].last_used = t],
              result |-> 0, entry |-> entry]

text_backend_update_count(c, entry, t) ==
    LET i == IndexOfId(c.entries, entry.id)
    IN  IF i = 0
        THEN [ctx |-> c, result |-> 0, entry |-> entry]
        ELSE [ctx |-> [c EXCEPT !.entries[i].count = @ + 1,
                                !.entries[i].last_used = t],
              result |-> 0, entry |-> entry]

text_backend_update_translation(c, entry, new_translation, t) ==
    LET i == IndexOfId(c.entries, entry.id)
    IN  IF i = 0
        THEN [ctx |-> c, result |-> 0, entry |-> entry]
        ELSE [ctx |-> [c EXCEPT !.entries[i].translated_text = new_translation,
                                !.entries[i].count = 1,
                                !.entries[i].last_used = t],
              result |-> 0, entry |-> entry]

\* text_backend_update_translation when strdup(new_translation) returns
\* NULL: the old text is freed and the entry is left without one.
text_backend_update_translation_nomem(c, entry, new_translation, t) ==
    LET i == IndexOfId(c.entries, entry.id)
    IN  IF i = 0
        THEN [ctx |-> c, result |-> -1, entry |-> entry]
        ELSE [ctx |-> [c EXCEPT !.entries[i].translated_text = NoText],
              result |-> -1, entry |-> entry]

text_backend_cleanup(c, days_threshold, t, ub) ==
    IF days_threshold <= 0
    THEN [ctx |-> c, result |-> 0]
    ELSE LET kept == SelectKept(c.entries, t, days_threshold, ub)
         IN  [ctx |-> [c EXCEPT !.entries = kept],
              result |-> Len(c.entries) - Len(kept)]

text_backend_stats(c, cache_threshold, days_threshold, t, ub) ==
    LET idx == 1..Len(c.entries)
    IN  [total |-> Len(c.entries),
         active |-> Cardinality({i \in idx : c.entries[i].count >= cache_threshold}),
         expired |-> Cardinality({i \in idx :
                         OlderThan(c.entries[i].last_used, t, days_threshold, ub)})]

\* One JSON object per entry, in sequence order, under the file's key names.
JsonLine(e) ==
    [id |-> e.id, hash |-> e.hash, from |-> e.from_lang, to |-> e.to_lang,
     source |-> e.source_text, target |-> e.translated_text,
     count |-> e.count, last_used |-> e.last_used, created_at |-> e.created_at]

\* text_backend_save up to fopen(ctx->file_path, "w"): the file is cut to
\* length zero.
text_backend_save_open(c, f) == [file |-> <<>>, result |-> 0]

\* text_backend_save as a whole: once fclose has returned the file holds one
\* line per entry.
text_backend_save(c, f) ==
    [file |-> [i \in 1..Len(c.entries) |-> JsonLine(c.entries[i])],
     result |-> 0]

\* A line cJSON_Parse rejects, and an object without the nine fields.
NotJson == [json |-> FALSE]
Incomplete == [id |-> 1]

EntryFields == {"id", "hash", "from", "to", "source", "target", "count",
                "last_used", "created_at"}

\* A loader that takes last_used from the line's created_at.
EntryOfLine_created(line) ==
    [id |-> line.id, hash |-> line.hash,
     from_lang |-> line.from, to_lang |-> line.to,
     source_text |-> line.source, translated_text |-> line.target,
     count |-> line.count, last_used |-> line.created_at,
     created_at |-> line.created_at]

\* The entry load_cache_from_file builds from a line: the fields are copied
\* as they stand.  (strncpy cuts hash to 64 and the language codes to 3
\* characters; the lines of the model are within those lengths.)
EntryOfLine(line) ==
    [id |-> line.id, hash |-> line.hash,
     from_lang |-> line.from, to_lang |-> line.to,
     source_text |-> line.source, translated_text |-> line.target,
     count |-> line.count, last_used |-> line.last_used,
     created_at |-> line.created_at]

\* load_cache_from_file: unparsable lines and objects that lack a field are
\* skipped, every other line becomes an entry; next_id is moved past every
\* id that is not below it.
RECURSIVE LoadLines(_, _, _)
LoadLines(c, f, i) ==
    IF i > Len(f) THEN c
    ELSE IF f[i] = NotJson \/ DOMAIN f[i] # EntryFields
    THEN LoadLines(c, f, i + 1)
    ELSE LET entry == EntryOfLine(f[i])
         IN  LoadLines([entries |-> Append(c.entries, entry),
                        next_id |-> IF entry.id >= c.next_id
                                    THEN IntSucc(entry.id) ELSE c.next_id],
                       f, i + 1)

load_cache_from_file(c, f) == LoadLines(c, f, 1)

\* text_backend_init: size = 0, next_id = 1, then the file is loaded.
text_backend_init(f) ==
    load_cache_from_file([entries |-> <<>>, next_id |-> 1], f)

(***************************************************************************)
(* SQLite backend.  ctx.entries are the rows of trans_cache in id order,   *)
(* ctx.next_id the next AUTOINCREMENT id.  lookup returns a heap copy of   *)
(* the row, Copy(row); the updates write the copy's fields back with       *)
(* UPDATE ... WHERE hash = ?.                                              *)
(***************************************************************************)
sqlite_backend_lookup(c, from_lang, to_lang, text, t) ==
    LET hash == trans_cache_calculate_hash(from_lang, to_lang, text)
        i == IndexOfHash(c.entries, hash)
    IN  IF i = 0
        THEN [ctx |-> c, result |-> NULL]
        ELSE [ctx |-> c, result |-> Copy(c.entries[i])]

sqlite_backend_add(c, from_lang, to_lang, source_text, translated_text, t) ==
    LET hash == trans_cache_calculate_hash(from_lang, to_lang, source_text)
    IN  IF IndexOfHash(c.entries, hash) # 0
        THEN [ctx |-> c, result |-> -1]          \* hash TEXT NOT NULL UNIQUE
        ELSE [ctx |-> [entries |-> Append(c.entries,
                           NewEntry(c.next_id, from_lang, to_lang, source_text,
                                    translated_text, t)),
                       next_id |-> c.next_id + 1],
              result |-> 0]

\* UPDATE trans_cache SET count = ?, last_used = ? WHERE hash = ?
sql_update_count(rows, count, last_used, hash) ==
    [i \in 1..Len(rows) |->
        IF rows[i].hash = hash
        THEN [rows[i] EXCEPT !.count = count, !.last_used = last_used]
        ELSE rows[i]]

\* update_count that writes the copy's count back without adding to it.
sqlite_backend_update_count_same(c, entry, t) ==
    LET e == [entry.entry EXCEPT !.last_used = t]
    IN  [ctx |-> [c EXCEPT !.entries =
                      sql_update_count(c.entries, e.count, e.last_used, e.hash)],
         result |-> 0, entry |-> Copy(e)]

sqlite_backend_update_count(c, entry, t) ==
    LET e == [entry.entry EXCEPT !.count = @ + 1, !.last_used = t]
    IN  [ctx |-> [c EXCEPT !.entries =
                      sql_update_count(c.entries, e.count, e.last_used, e.hash)],
         result |-> 0, entry |-> Copy(e)]

\* UPDATE trans_cache SET translated_text = ?, count = 1, last_used = ? WHERE hash = ?
sql_update_trans(rows, translated_text, last_used, hash) ==
    [i \in 1..Len(rows) |->
        IF rows[i].hash = hash
        THEN [rows[i] EXCEPT !.translated_text = translated_text,
                             !.count = 1, !.last_used = last_used]
        ELSE rows[i]]

sqlite_backend_update_translation(c, entry, new_translation, t) ==
    LET e == [entry.entry EXCEPT !.translated_text = new_translation,
                                 !.count = 1, !.last_used = t]
    IN  [ctx |-> [c EXCEPT !.entries =
                      sql_update_trans(c.entries, new_translation, e.last_used, e.hash)],
         result |-> 0, entry |-> Copy(e)]

\* sqlite_backend_update_translation when strdup(new_translation) returns
\* NULL: the caller's copy has lost its text, no statement has run.
sqlite_backend_update_translation_nomem(c, entry, new_translation, t) ==
    [ctx |-> c, result |-> -1,
     entry |-> Copy([entry.entry EXCEPT !.translated_text = NoText])]

\* sqlite_backend_update_translation when sqlite3_step does not return
\* SQLITE_DONE: the caller's copy is updated, the row is not.
sqlite_backend_update_translation_step_fails(c, entry, new_translation, t) ==
    [ctx |-> c, result |-> -1,
     entry |-> Copy([entry.entry EXCEPT !.translated_text = new_translation,
                                        !.count = 1, !.last_used = t])]

sqlite_backend_cleanup(c, days_threshold, t, ub) ==
    IF days_threshold <= 0
    THEN [ctx |-> c, result |-> 0]
    ELSE LET kept == SelectKept(c.entries, t, days_threshold, ub)    \* DELETE ... WHERE last_used < ?
         IN  [ctx |-> [c EXCEPT !.entries = kept],
              result |-> Len(c.entries) - Len(kept)]

sqlite_backend_stats(c, cache_threshold, days_threshold, t, ub) ==
    LET idx == 1..Len(c.entries)
    IN  [total |-> Len(c.entries),
         active |-> Cardinality({i \in idx : c.entries[i].count >= cache_threshold}),
         expired |-> Cardinality({i \in idx :
                         OlderThan(c.entries[i].last_used, t, days_threshold, ub)})]

\* "SQLite auto-commits, no explicit save needed": the file is left alone.
sqlite_backend_save(c, f) == [file |-> f, result |-> 0]


(***************************************************************************)
(* State.                                                                  *)
(***************************************************************************)
VARIABLES
    config,            \* Config: cache_type, cache_threshold, cache_cleanup_*
    clients,           \* connection threads the HTTP daemon may run at once
    ctx,               \* backend_ctx: [entries, next_id]
    file,              \* content of the text backend's cache file
    lock,              \* cache->lock: [w: writer or "none", r: set of readers]
    pc,                \* where each thread stands
    req,               \* per handler: the request's (from, to, text)
    cached,            \* per handler: CacheEntry *cached
    translated_text,   \* per handler: what openai_translate returned
    now,               \* time(NULL)
    elapsed,           \* cache_background_thread: int elapsed
    cache_bg_running,  \* server->cache_bg_running
    quota,             \* requests the clients send in this run
    nreq,              \* requests accepted so far
    sig,               \* SIGHUP: [n delivered, targets, on (thread), ret (its pc)]
    stats_out,         \* what the last trans_cache_stats reported
    last,              \* per handler: what its current request saw and did
    support,           \* per hash and text: reconciled external answers with
                       \* that text since the entry was created or replaced
    reconciled,        \* per hash and text: reconciled external answers, ever
    hits,              \* per hash: cache-hit confirmations
    refUse,            \* uses of a live entry pointer outside the lookup's lock
    cadence,           \* background thread: [slept: seconds of sleep since it
                       \* started or last called cleanup, sleeps, saves: sleeps
                       \* and saves of the current loop iteration]
    xlate,             \* per handler: its openai_translate call, [attempt,
                       \* outcomes (of the attempts made), result, error,
                       \* slept, done], and the error response it led to
    mig                \* cache_tool migrate: its arguments, the source store,
                       \* and what the run did: [from_backend, to_backend,
                       \* source, initialized, migrated_count, failed_count,
                       \* status]

vars == <<config, clients, ctx, file, lock, pc, req, cached, translated_text,
          now, elapsed, cache_bg_running, quota, nreq, sig, stats_out,
          last, support, reconciled, hits, refUse, cadence, xlate, mig>>

handlerVars == <<req, cached, translated_text>>
serverVars == <<elapsed, cache_bg_running, sig, stats_out, cadence>>
ghostVars == <<last, support, reconciled, hits, refUse>>
toolVars == <<xlate, mig>>

NoRequest == <<"", "", "">>

FreshLast ==
    [found |-> FALSE, lkCount |-> 0, lkText |-> NoText, missed |-> FALSE,
     ext |-> NoText, op |-> "none", result |-> 0,
     existed |-> FALSE, storedBefore |-> NoText,
     afterText |-> NoText, afterCount |-> 0,
     response |-> NoText, fromCache |-> FALSE, supportAtServe |-> 0]

ZeroSupport == [t \in Results |-> 0]

\* TranslationError trans_error = {0}
NoError == [message |-> "none", retryable |-> FALSE, status_code |-> 0]

\* No answer sent for the request yet.
NoResponse == [status |-> 0, retry_after |-> FALSE]

\* No openai_translate call under way.
NoCall ==
    [attempt |-> 0, outcomes |-> <<>>, result |-> NoText, error |-> NoError,
     slept |-> 0, done |-> FALSE, response |-> NoResponse]

\* No cache_tool run.
NoMigration ==
    [from_backend |-> "", to_backend |-> "",
     source |-> [entries |-> <<>>, next_id |-> 1],
     initialized |-> {}, migrated_count |-> 0, failed_count |-> 0,
     status |-> -1]

(***************************************************************************)
(* cache->ops: the backend chosen by trans_cache_init_with_backend.        *)
(***************************************************************************)
ops_lookup(c, r, t) ==
    IF config.cache_type = "sqlite"
    THEN sqlite_backend_lookup(c, r[1], r[2], r[3], t)
    ELSE text_backend_lookup(c, r[1], r[2], r[3], t)

ops_add(c, r, tr, t) ==
    IF config.cache_type = "sqlite"
    THEN sqlite_backend_add(c, r[1], r[2], r[3], tr, t)
    ELSE text_backend_add(c, r[1], r[2], r[3], tr, t)

ops_update_count(c, entry, t) ==
    IF config.cache_type = "sqlite"
    THEN sqlite_backend_update_count(c, entry, t)
    ELSE text_backend_update_count(c, entry, t)

ops_update_translation(c, entry, tr, t) ==
    IF config.cache_type = "sqlite"
    THEN sqlite_backend_update_translation(c, entry, tr, t)
    ELSE text_backend_update_translation(c, entry, tr, t)

\* The ways update_translation can return -1 when the handler calls it.
UpdateFailures ==
    IF config.cache_type = "sqlite" THEN {"strdup", "sqlite3_step"}
    ELSE {"strdup"}

ops_update_translation_fails(c, entry, tr, t, how) ==
    IF config.cache_type = "sqlite"
    THEN IF how = "strdup"
         THEN sqlite_backend_update_translation_nomem(c, entry, tr, t)
         ELSE sqlite_backend_update_translation_step_fails(c, entry, tr, t)
    ELSE text_backend_update_translation_nomem(c, entry, tr, t)

ops_save_open(c, f) ==
    IF config.cache_type = "sqlite"
    THEN sqlite_backend_save(c, f)
    ELSE text_backend_save_open(c, f)

ops_save(c, f) ==
    IF config.cache_type = "sqlite"
    THEN sqlite_backend_save(c, f)
    ELSE text_backend_save(c, f)

ops_cleanup(c, days, t) ==
    IF config.cache_type = "sqlite"
    THEN sqlite_backend_cleanup(c, days, t, config.overflow.threshold)
    ELSE text_backend_cleanup(c, days, t, config.overflow.threshold)

ops_stats(c, thr, days, t) ==
    IF config.cache_type = "sqlite"
    THEN sqlite_backend_stats(c, thr, days, t, config.overflow.threshold)
    ELSE text_backend_stats(c, thr, days, t, config.overflow.threshold)

(***************************************************************************)
(* cache->lock, a pthread_rwlock_t.                                        *)
(***************************************************************************)
Held(th) ==
    IF lock.w = th THEN "wr" ELSE IF th \in lock.r THEN "rd" ELSE "none"

pthread_rwlock_rdlock(th) ==
    /\ lock.w = NoThread
    /\ lock' = [lock EXCEPT !.r = @ \cup {th}]

pthread_rwlock_wrlock(th) ==
    /\ lock.w = NoThread
    /\ lock.r = {}
    /\ lock' = [lock EXCEPT !.w = th]

pthread_rwlock_unlock(th) ==
    lock' = IF lock.w = th
            THEN [lock EXCEPT !.w = NoThread]
            ELSE [lock EXCEPT !.r = @ \ {th}]

\* The lock call each facade function makes before it calls the backend.
FacadeLock(op) ==
    CASE op = "lookup" -> "rd"
      [] op = "add" -> "wr"
      [] op = "update_count" -> "wr"
      [] op = "update_translation" -> "wr"
      [] op = "save" -> "rd"
      [] op = "cleanup" -> "wr"
      [] op = "stats" -> "rd"
      [] op = "free_backend" -> "none"

Acquire(th, op) ==
    LET m == FacadeLock(op)
    IN  IF m = "rd" THEN pthread_rwlock_rdlock(th)
        ELSE IF m = "wr" THEN pthread_rwlock_wrlock(th)
        ELSE UNCHANGED lock


(***************************************************************************)
(* What a handler reads through `cached` outside the facade.  A copy (the  *)
(* SQLite backend) yields the copied field.  A pointer into the text       *)
(* backend yields the entry's current field; once cleanup has freed the    *)
(* entry the read is of freed memory and may yield anything.               *)
(***************************************************************************)
Dangling(h) ==
    cached[h].kind = "ref" /\ IndexOfId(ctx.entries, cached[h].id) = 0

CountRead(h) ==
    IF cached[h].kind = "copy" THEN {cached[h].entry.count}
    ELSE IF Dangling(h) THEN {1, config.cache_threshold}
    ELSE {ctx.entries[IndexOfId(ctx.entries, cached[h].id)].count}

TextRead(h) ==
    IF cached[h].kind = "copy" THEN {cached[h].entry.translated_text}
    ELSE IF Dangling(h) THEN Translations
    ELSE {ctx.entries[IndexOfId(ctx.entries, cached[h].id)].translated_text}

\* A use of `cached` by a handler that no longer holds the lock its lookup
\* ran under, when `cached` points into the backend's own storage.
UseRef(h, what) ==
    IF cached[h].kind = "ref" /\ pc[h] # "lookup_unlock"
    THEN refUse \cup {what} ELSE refUse

StoredText(c, hash) ==
    IF IndexOfHash(c.entries, hash) = 0 THEN NoText
    ELSE c.entries[IndexOfHash(c.entries, hash)].translated_text

StoredCount(c, hash) ==
    IF IndexOfHash(c.entries, hash) = 0 THEN 0
    ELSE c.entries[IndexOfHash(c.entries, hash)].count

StoredId(c, hash) ==
    IF IndexOfHash(c.entries, hash) = 0 THEN 0
    ELSE c.entries[IndexOfHash(c.entries, hash)].id

HashOf(r) == trans_cache_calculate_hash(r[1], r[2], r[3])

\* Book-keeping of a reconciliation that answered text t for this hash.
SupportAfter(hash, t, c1, c2) ==
    LET before == StoredText(c1, hash)
        after == StoredText(c2, hash)
    IN  IF after = NoText THEN support
        ELSE IF before # after
        THEN [support EXCEPT ![hash] = [x \in Results |-> IF x = after THEN 1 ELSE 0]]
        ELSE [support EXCEPT ![hash][t] = @ + 1]

\* Book-keeping of a cleanup: an entry that is gone has no support left.
SupportAfterCleanup(c1, c2) ==
    [hash \in Hashes |->
        IF StoredId(c2, hash) = StoredId(c1, hash) THEN support[hash]
        ELSE IF StoredId(c2, hash) = 0 THEN ZeroSupport
        ELSE [x \in Results |-> IF x = StoredText(c2, hash) THEN 1 ELSE 0]]

(***************************************************************************)
(* handle_translate, from "Check cache first if enabled" on.               *)
(***************************************************************************)
Failed == "FAILED"

\* Where every thread stands once abort() has ended the process.
Aborted == "aborted"

\* MHD_USE_THREAD_PER_CONNECTION: a connection thread starts on a request.
StartRequest(h) ==
    /\ h \in clients
    /\ pc[h] = "idle"
    /\ pc["main"] = "serving"
    /\ nreq < quota
    /\ \E r \in Requests : req' = [req EXCEPT ![h] = r]
    /\ nreq' = nreq + 1
    /\ cached' = [cached EXCEPT ![h] = NULL]
    /\ translated_text' = [translated_text EXCEPT ![h] = NoText]
    /\ last' = [last EXCEPT ![h] = FreshLast]
    /\ pc' = [pc EXCEPT ![h] = "lookup"]
    /\ UNCHANGED <<config, clients, quota, ctx, file, lock, now, serverVars,
                   toolVars, support, reconciled, hits, refUse>>

\* trans_cache_lookup: rdlock, ops->lookup.
Lookup(h) ==
    /\ pc[h] = "lookup"
    /\ Acquire(h, "lookup")
    /\ LET r == ops_lookup(ctx, req[h], now)
           hash == HashOf(req[h])
       IN  /\ ctx' = r.ctx
           /\ cached' = [cached EXCEPT ![h] = r.result]
           /\ last' = [last EXCEPT ![h].found = (r.result # NULL),
                                   ![h].missed = (r.result = NULL),
                                   ![h].lkCount = StoredCount(ctx, hash),
                                   ![h].lkText = StoredText(ctx, hash)]
    /\ pc' = [pc EXCEPT ![h] = "lookup_unlock"]
    /\ UNCHANGED <<config, clients, quota, file, req, translated_text, now, serverVars,
                   nreq, toolVars, support, reconciled, hits, refUse>>

\* trans_cache_lookup returning with the read lock still held.
LookupUnlock_keep(h) ==
    /\ pc[h] = "lookup_unlock"
    /\ pc' = [pc EXCEPT ![h] = "check"]
    /\ UNCHANGED <<config, clients, quota, ctx, file, lock, handlerVars, now,
                   serverVars, nreq, toolVars, ghostVars>>

\* trans_cache_lookup: unlock, return result.
LookupUnlock(h) ==
    /\ pc[h] = "lookup_unlock"
    /\ pthread_rwlock_unlock(h)
    /\ pc' = [pc EXCEPT ![h] = "check"]
    /\ UNCHANGED <<config, clients, quota, ctx, file, handlerVars, now, serverVars,
                   nreq, toolVars, ghostVars>>

\* cached->count > cache_threshold: the comparison made strict.
CacheHit_strict(cnt) == cnt > config.cache_threshold

\* cached->count >= server->config->cache_threshold
CacheHit(cnt) == cnt >= config.cache_threshold

\* if (cached && cached->count >= server->config->cache_threshold)
CheckThreshold(h) ==
    /\ pc[h] = "check"
    /\ IF cached[h] = NULL
       THEN /\ pc' = [pc EXCEPT ![h] = "translate"]
            /\ UNCHANGED refUse
       ELSE /\ \E cnt \in CountRead(h) :
                 pc' = [pc EXCEPT ![h] =
                           IF CacheHit(cnt)
                           THEN "hit_update" ELSE "translate"]
            /\ refUse' = UseRef(h, "count")
    /\ UNCHANGED <<config, clients, quota, ctx, file, lock, handlerVars, now,
                   serverVars, nreq, toolVars, last, support, reconciled, hits>>

\* Cache hit: trans_cache_update_count(server->cache, cached), wrlock taken.
HitUpdateCount(h) ==
    /\ pc[h] = "hit_update"
    /\ Acquire(h, "update_count")
    /\ LET r == ops_update_count(ctx, cached[h], now)
       IN  /\ ctx' = r.ctx
           /\ cached' = [cached EXCEPT ![h] = r.entry]
           /\ last' = [last EXCEPT ![h].op = "hit", ![h].result = r.result]
    /\ hits' = [hits EXCEPT ![HashOf(req[h])] = @ + 1]
    /\ refUse' = UseRef(h, "update_count")
    /\ pc' = [pc EXCEPT ![h] = "hit_unlock"]
    /\ UNCHANGED <<config, clients, quota, file, req, translated_text, now, serverVars,
                   nreq, toolVars, support, reconciled>>

HitUnlock(h) ==
    /\ pc[h] = "hit_unlock"
    /\ pthread_rwlock_unlock(h)
    /\ pc' = [pc EXCEPT ![h] = "hit_respond"]
    /\ UNCHANGED <<config, clients, quota, ctx, file, handlerVars, now, serverVars,
                   nreq, toolVars, ghostVars>>

\* create_translation_response(req, cached->translated_text); 200.
HitRespond(h) ==
    /\ pc[h] = "hit_respond"
    /\ \E t \in TextRead(h) :
          last' = [last EXCEPT ![h].response = t,
                               ![h].fromCache = TRUE,
                               ![h].supportAtServe = support[HashOf(req[h])][t]]
    /\ refUse' = UseRef(h, "text")
    /\ pc' = [pc EXCEPT ![h] = "idle"]
    /\ UNCHANGED <<config, clients, quota, ctx, file, lock, handlerVars, now,
                   serverVars, nreq, toolVars, support, reconciled, hits>>

\* handle_translate once openai_translate has returned t: on success the
\* handler picks the reconciliation (strcmp(cached->translated_text,
\* translated_text)), on failure it answers 502/503.  strcmp on an entry
\* whose translated_text is NULL reads through the null pointer and the
\* process ends.
AfterTranslate(h, t) ==
    IF t = Failed
    THEN /\ pc' = [pc EXCEPT ![h] = "idle"]
         /\ last' = [last EXCEPT ![h].ext = Failed, ![h].response = "error"]
         /\ UNCHANGED <<translated_text, refUse>>
    ELSE /\ translated_text' = [translated_text EXCEPT ![h] = t]
         /\ last' = [last EXCEPT ![h].ext = t]
         /\ IF cached[h] = NULL
            THEN /\ pc' = [pc EXCEPT ![h] = "add"]
                 /\ UNCHANGED refUse
            ELSE /\ \E stored \in TextRead(h) :
                      pc' = IF stored = NoText
                            THEN [th \in Threads |-> Aborted]
                            ELSE [pc EXCEPT ![h] =
                                     IF stored = t THEN "update_count"
                                     ELSE "update_translation"]
                 /\ refUse' = UseRef(h, "text")

\* openai_translate taken in one step, by its result: a translation or
\* NULL.
Translate(h) ==
    /\ pc[h] = "translate"
    /\ \E t \in Translations \cup {Failed} : AfterTranslate(h, t)
    /\ UNCHANGED <<config, clients, quota, ctx, file, lock, req, cached, now,
                   serverVars, nreq, toolVars, support, reconciled, hits>>

(***************************************************************************)
(* openai_translate attempt by attempt.                                    *)
(***************************************************************************)
\* openai_translator_init(config, 3, 60)
max_retries == 3

\* What an attempt can end in: no curl handle; curl_easy_perform failing
\* (transport error, timeout); an HTTP status, below 400 with a body.
AttemptOutcomes ==
    {[res |-> "no_curl", http_code |-> 0, body |-> "none"],
     [res |-> "error", http_code |-> 0, body |-> "none"]}
    \cup {[res |-> "ok", http_code |-> c, body |-> "none"] : c \in {400, 429, 500, 503}}
    \cup {[res |-> "ok", http_code |-> 200, body |-> b] :
              b \in {"not_json", "no_choices", "no_message", "unclean"}
                    \cup Translations}

\* (int)pow(2, attempt)
Backoff(attempt) == 2 ^ attempt

\* One pass of the for loop with HTTP status 4xx retried like 5xx.
openai_attempt_retry4xx(call, o) ==
    LET c == [call EXCEPT !.outcomes = Append(@, o)]
        again == [c EXCEPT !.slept = @ + Backoff(call.attempt), !.attempt = @ + 1]
        last_one == call.attempt >= max_retries
    IN  CASE o.res = "no_curl" -> [c EXCEPT !.attempt = @ + 1]
          [] o.res = "error" ->
                IF ~last_one THEN again
                ELSE [c EXCEPT !.done = TRUE,
                               !.error = [message |-> "curl_easy_strerror",
                                          retryable |-> TRUE, status_code |-> 0]]
          [] o.res = "ok" /\ o.http_code >= 400 ->
                IF ~last_one THEN again
                ELSE [c EXCEPT !.done = TRUE,
                               !.error = [message |-> "Server error",
                                          retryable |-> TRUE,
                                          status_code |-> o.http_code]]
          [] OTHER -> [c EXCEPT !.done = TRUE, !.result = o.body]

\* One pass of the for loop, for an attempt that ends in o.
openai_attempt(call, o) ==
    LET c == [call EXCEPT !.outcomes = Append(@, o)]
        again == [c EXCEPT !.slept = @ + Backoff(call.attempt), !.attempt = @ + 1]
        last_one == call.attempt >= max_retries
    IN  CASE o.res = "no_curl" -> [c EXCEPT !.attempt = @ + 1]
          [] o.res = "error" ->
                IF ~last_one THEN again
                ELSE [c EXCEPT !.done = TRUE,
                               !.error = [message |-> "curl_easy_strerror",
                                          retryable |-> TRUE, status_code |-> 0]]
          [] o.res = "ok" /\ o.http_code >= 500 ->
                IF ~last_one THEN again
                ELSE [c EXCEPT !.done = TRUE,
                               !.error = [message |-> "Server error",
                                          retryable |-> TRUE,
                                          status_code |-> o.http_code]]
          [] o.res = "ok" /\ o.http_code >= 400 /\ o.http_code < 500 ->
                [c EXCEPT !.done = TRUE,
                          !.error = [message |-> "Client error",
                                     retryable |-> FALSE,
                                     status_code |-> o.http_code]]
          [] o.res = "ok" /\ o.http_code < 400 /\ o.body = "not_json" ->
                [c EXCEPT !.done = TRUE,
                          !.error = [message |-> "Invalid response JSON",
                                     retryable |-> FALSE,
                                     status_code |-> o.http_code]]
          [] o.res = "ok" /\ o.http_code < 400 /\ o.body = "no_choices" ->
                [c EXCEPT !.done = TRUE,
                          !.error = [message |-> "No translation in response",
                                     retryable |-> FALSE,
                                     status_code |-> o.http_code]]
          [] o.res = "ok" /\ o.http_code < 400 /\ o.body = "no_message" ->
                [c EXCEPT !.done = TRUE, !.result = NothingContents]
          [] o.res = "ok" /\ o.http_code < 400 /\ o.body = "unclean" ->
                [c EXCEPT !.done = TRUE]
          [] OTHER -> [c EXCEPT !.done = TRUE, !.result = o.body]

\* After the loop: a NULL result without an error message becomes a
\* retryable error.
openai_return(call) ==
    IF call.result = NoText /\ call.error.message = "none"
    THEN [call EXCEPT !.error = [message |-> "Translation failed after all retries",
                                 retryable |-> TRUE, status_code |-> 0]]
    ELSE call

\* trans_error.retryable ? MHD_HTTP_SERVICE_UNAVAILABLE : MHD_HTTP_BAD_GATEWAY,
\* every failure answered 503 with the header.
ErrorResponse_always503(error) == [status |-> 503, retry_after |-> TRUE]

\* trans_error.retryable ? MHD_HTTP_SERVICE_UNAVAILABLE : MHD_HTTP_BAD_GATEWAY;
\* send_json_response(connection, error_json, status_code, retryable) adds
\* "Retry-After: 5" when its last argument is true.
ErrorResponse(error) ==
    [status |-> IF error.retryable THEN 503 ELSE 502,
     retry_after |-> error.retryable]

\* handle_translate calls openai_translate: attempt = 1.
TranslateCall(h) ==
    /\ pc[h] = "translate"
    /\ xlate' = [xlate EXCEPT ![h] = [NoCall EXCEPT !.attempt = 1]]
    /\ pc' = [pc EXCEPT ![h] = "tr_attempt"]
    /\ UNCHANGED <<config, clients, quota, ctx, file, lock, handlerVars, now,
                   serverVars, nreq, mig, ghostVars>>

\* for (attempt = 1; attempt <= translator->max_retries; attempt++): one
\* pass.
TranslateAttempt(h) ==
    /\ pc[h] = "tr_attempt"
    /\ xlate[h].attempt <= max_retries
    /\ ~xlate[h].done
    /\ \E o \in AttemptOutcomes :
          LET c == openai_attempt(xlate[h], o)
          IN  /\ xlate' = [xlate EXCEPT ![h] = c]
              /\ pc' = [pc EXCEPT ![h] =
                            IF c.done \/ c.attempt > max_retries
                            THEN "tr_return" ELSE "tr_attempt"]
    /\ UNCHANGED <<config, clients, quota, ctx, file, lock, handlerVars, now,
                   serverVars, nreq, mig, ghostVars>>

\* openai_translate returns and handle_translate goes on with its result.
TranslateReturn(h) ==
    /\ pc[h] = "tr_return"
    /\ LET c == openai_return(xlate[h])
       IN  /\ AfterTranslate(h, IF c.result = NoText THEN Failed ELSE c.result)
           /\ xlate' = [xlate EXCEPT ![h] =
                         IF c.result = NoText
                         THEN [c EXCEPT !.response = ErrorResponse(c.error)]
                         ELSE c]
    /\ UNCHANGED <<config, clients, quota, ctx, file, lock, req, cached, now,
                   serverVars, nreq, mig, support, reconciled, hits>>

\* The reconciliation's book-keeping, the same for the three operations.
Reconciled(h, op, r) ==
    LET hash == HashOf(req[h])
        t == translated_text[h]
    IN  /\ ctx' = r.ctx
        /\ last' = [last EXCEPT ![h].op = op, ![h].result = r.result,
                                ![h].existed = (IndexOfHash(ctx.entries, hash) # 0),
                                ![h].storedBefore = StoredText(ctx, hash),
                                ![h].afterText = StoredText(r.ctx, hash),
                                ![h].afterCount = StoredCount(r.ctx, hash)]
        /\ support' = SupportAfter(hash, t, ctx, r.ctx)
        /\ reconciled' = [reconciled EXCEPT ![hash][t] = @ + 1]
        /\ pc' = [pc EXCEPT ![h] = "reconcile_unlock"]

\* trans_cache_update_count(server->cache, cached): same translation.
ReconcileUpdateCount(h) ==
    /\ pc[h] = "update_count"
    /\ Acquire(h, "update_count")
    /\ LET r == ops_update_count(ctx, cached[h], now)
       IN  /\ Reconciled(h, "update_count", r)
           /\ cached' = [cached EXCEPT ![h] = r.entry]
    /\ refUse' = UseRef(h, "update_count")
    /\ UNCHANGED <<config, clients, quota, file, req, translated_text, now, serverVars,
                   nreq, toolVars, hits>>

\* trans_cache_update_translation(server->cache, cached, translated_text).
\* Through a pointer to an entry that cleanup has freed, the text backend's
\* free(entry->translated_text) frees a second time: the allocator lets it
\* pass, or it detects the double free and aborts the process.
ReconcileUpdateTranslation(h) ==
    /\ pc[h] = "update_translation"
    /\ Acquire(h, "update_translation")
    /\ refUse' = UseRef(h, "update_translation")
    /\ \/ LET r == ops_update_translation(ctx, cached[h], translated_text[h], now)
          IN  /\ Reconciled(h, "update_translation", r)
              /\ cached' = [cached EXCEPT ![h] = r.entry]
       \/ /\ Dangling(h)
          /\ pc' = [th \in Threads |-> Aborted]
          /\ UNCHANGED <<ctx, cached, last, support, reconciled>>
    /\ UNCHANGED <<config, clients, quota, file, req, translated_text, now, serverVars,
                   nreq, toolVars, hits>>

\* trans_cache_update_translation returning -1; handle_translate does not
\* look at the return value.
ReconcileUpdateTranslationFails(h) ==
    /\ pc[h] = "update_translation"
    /\ ~Dangling(h)
    /\ Acquire(h, "update_translation")
    /\ refUse' = UseRef(h, "update_translation")
    /\ \E how \in UpdateFailures :
          LET r == ops_update_translation_fails(ctx, cached[h], translated_text[h],
                                                now, how)
          IN  /\ Reconciled(h, "update_translation", r)
              /\ cached' = [cached EXCEPT ![h] = r.entry]
    /\ UNCHANGED <<config, clients, quota, file, req, translated_text, now, serverVars,
                   nreq, toolVars, hits>>

\* trans_cache_add(server->cache, from, to, text, translated_text).
ReconcileAdd(h) ==
    /\ pc[h] = "add"
    /\ Acquire(h, "add")
    /\ Reconciled(h, "add", ops_add(ctx, req[h], translated_text[h], now))
    /\ UNCHANGED <<config, clients, quota, file, handlerVars, now, serverVars,
                   nreq, toolVars, hits, refUse>>

\* The facade unlocks; the handler answers 200 with translated_text.
ReconcileUnlock(h) ==
    /\ pc[h] = "reconcile_unlock"
    /\ pthread_rwlock_unlock(h)
    /\ last' = [last EXCEPT ![h].response = translated_text[h]]
    /\ pc' = [pc EXCEPT ![h] = "idle"]
    /\ UNCHANGED <<config, clients, quota, ctx, file, handlerVars, now, serverVars,
                   nreq, toolVars, support, reconciled, hits, refUse>>

Handler(h) ==
    \/ StartRequest(h)
    \/ Lookup(h)
    \/ LookupUnlock(h)
    \/ CheckThreshold(h)
    \/ HitUpdateCount(h)
    \/ HitUnlock(h)
    \/ HitRespond(h)
    \/ Translate(h)
    \/ ReconcileUpdateCount(h)
    \/ ReconcileUpdateTranslation(h)
    \/ ReconcileAdd(h)
    \/ ReconcileUnlock(h)

\* The wall clock moves on, a day at a time.
Tick ==
    /\ now < MaxDays * DaySeconds
    /\ now' = now + DaySeconds
    /\ UNCHANGED <<config, clients, quota, ctx, file, lock, pc, handlerVars,
                   serverVars, nreq, toolVars, ghostVars>>


(***************************************************************************)
(* cache_background_thread.                                                *)
(***************************************************************************)
\* a / b as C divides ints: the quotient is truncated toward zero.
CDiv(a, b) == IF a >= 0 THEN a \div b ELSE -((-a) \div b)

\* (cleanup_days * 24 * 60 * 60) / 10, at least 3600.  The int product is
\* undefined from cleanup_days = 24856 on: it wraps around, or the build has
\* folded the expression into cleanup_days * 8640.
cleanup_check_interval ==
    IF config.cache_cleanup_enabled
    THEN Max(IF config.overflow.interval = "wraps"
             THEN CDiv(128 * DaysInSeconds128(config.cache_cleanup_days, "wraps"), 10)
             ELSE config.cache_cleanup_days * ((24 * 60 * 60) \div 10),
             MinCleanupInterval)
    ELSE 0

CleanupDue(e) == config.cache_cleanup_enabled /\ e >= cleanup_check_interval

\* while (server->cache_bg_running)
MaintLoop ==
    /\ pc["maint"] = "m_loop"
    /\ pc' = [pc EXCEPT !["maint"] = IF cache_bg_running THEN "m_sleep" ELSE "m_done"]
    /\ cadence' = IF cache_bg_running
                  THEN [cadence EXCEPT !.sleeps = 0, !.saves = 0]
                  ELSE cadence
    /\ UNCHANGED <<config, clients, quota, ctx, file, lock, handlerVars, now,
                   elapsed, cache_bg_running, sig, stats_out, nreq, toolVars, ghostVars>>

\* An iteration that sleeps and goes back to the loop test without saving.
MaintSleep_nosave ==
    /\ pc["maint"] = "m_sleep"
    /\ \/ elapsed < MaxIdleIter * save_interval
       \/ CleanupDue(elapsed + save_interval)
       \/ ~cache_bg_running
       \/ clients = {} /\ elapsed < MaxElapsed
    /\ elapsed' = elapsed + save_interval
    /\ cadence' = [cadence EXCEPT !.slept = @ + save_interval, !.sleeps = @ + 1]
    /\ pc' = [pc EXCEPT !["maint"] = IF cache_bg_running THEN "m_loop" ELSE "m_done"]
    /\ UNCHANGED <<config, clients, quota, ctx, file, lock, handlerVars, now,
                   cache_bg_running, sig, stats_out, nreq, toolVars,
                   ghostVars>>

\* sleep(save_interval); elapsed += save_interval; if (!running) break;
MaintSleep ==
    /\ pc["maint"] = "m_sleep"
    /\ \/ elapsed < MaxIdleIter * save_interval
       \/ CleanupDue(elapsed + save_interval)
       \/ ~cache_bg_running
       \/ clients = {} /\ elapsed < MaxElapsed
    /\ elapsed' = elapsed + save_interval
    /\ cadence' = [cadence EXCEPT !.slept = @ + save_interval, !.sleeps = @ + 1]
    /\ pc' = [pc EXCEPT !["maint"] = IF cache_bg_running THEN "m_save" ELSE "m_done"]
    /\ UNCHANGED <<config, clients, quota, ctx, file, lock, handlerVars, now,
                   cache_bg_running, sig, stats_out, nreq, toolVars,
                   ghostVars>>

\* The iterations between the first ones and the one in which cleanup falls
\* due, taken together: each sleeps, saves under the read lock and finds
\* cleanup not due yet, while no other thread moves.
MaintIdleIterations ==
    /\ pc["maint"] = "m_sleep"
    /\ cache_bg_running
    /\ config.cache_cleanup_enabled
    /\ elapsed >= MaxIdleIter * save_interval
    /\ elapsed + 2 * save_interval < cleanup_check_interval
    /\ clients # {}
    /\ lock.w = NoThread
    /\ elapsed' = cleanup_check_interval - save_interval
    /\ cadence' = [cadence EXCEPT !.slept = @ + (elapsed' - elapsed)]
    /\ file' = ops_save(ctx, file).file
    /\ UNCHANGED <<config, clients, quota, ctx, lock, pc, handlerVars, now,
                   cache_bg_running, sig, stats_out, nreq, toolVars,
                   ghostVars>>

\* trans_cache_save(server->cache): rdlock, ops->save as far as its fopen.
MaintSave ==
    /\ pc["maint"] = "m_save"
    /\ Acquire("maint", "save")
    /\ file' = ops_save_open(ctx, file).file
    /\ cadence' = [cadence EXCEPT !.saves = @ + 1]
    /\ pc' = [pc EXCEPT !["maint"] = "m_save_unlock"]
    /\ UNCHANGED <<config, clients, quota, ctx, handlerVars, now, elapsed,
                   cache_bg_running, sig, stats_out, nreq, toolVars, ghostVars>>

\* ops->save writes the lines and closes the file; unlock;
\* if (cleanup_enabled && elapsed >= cleanup_check_interval) elapsed = 0
MaintSaveUnlock ==
    /\ pc["maint"] = "m_save_unlock"
    /\ file' = ops_save(ctx, file).file
    /\ pthread_rwlock_unlock("maint")
    /\ IF CleanupDue(elapsed)
       THEN /\ elapsed' = 0
            /\ pc' = [pc EXCEPT !["maint"] = "m_cleanup"]
       ELSE /\ UNCHANGED elapsed
            /\ pc' = [pc EXCEPT !["maint"] = "m_loop"]
    /\ UNCHANGED <<config, clients, quota, ctx, handlerVars, now,
                   cache_bg_running, sig, stats_out, cadence, nreq, toolVars,
                   ghostVars>>

\* trans_cache_cleanup(server->cache, cleanup_days): wrlock, ops->cleanup.
MaintCleanup ==
    /\ pc["maint"] = "m_cleanup"
    /\ Acquire("maint", "cleanup")
    /\ LET r == ops_cleanup(ctx, config.cache_cleanup_days, now)
       IN  /\ ctx' = r.ctx
           /\ support' = SupportAfterCleanup(ctx, r.ctx)
    /\ cadence' = [cadence EXCEPT !.slept = 0]
    /\ pc' = [pc EXCEPT !["maint"] = "m_cleanup_unlock"]
    /\ UNCHANGED <<config, clients, quota, file, handlerVars, now, elapsed,
                   cache_bg_running, sig, stats_out, nreq, toolVars,
                   last, reconciled, hits, refUse>>

MaintCleanupUnlock ==
    /\ pc["maint"] = "m_cleanup_unlock"
    /\ pthread_rwlock_unlock("maint")
    /\ pc' = [pc EXCEPT !["maint"] = "m_loop"]
    /\ UNCHANGED <<config, clients, quota, ctx, file, handlerVars, now, serverVars,
                   nreq, toolVars, ghostVars>>

Maintainer ==
    \/ MaintLoop
    \/ MaintSleep
    \/ MaintIdleIterations
    \/ MaintSave
    \/ MaintSaveUnlock
    \/ MaintCleanup
    \/ MaintCleanupUnlock

(***************************************************************************)
(* signal_handler, SIGHUP branch: trans_cache_save, then trans_cache_stats.*)
(* sigaction installs it process-wide and no thread masks the signal, so   *)
(* it runs on whichever thread the kernel picks, on top of what that       *)
(* thread was doing: pc[th] is a sig_ label while the handler runs and     *)
(* sig.ret is where th resumes.  The handler's own hold of the rwlock is   *)
(* recorded under SignalFrame.                                             *)
(***************************************************************************)
SignalFrame == "sig"
SigLabels == {"sig_save", "sig_save_unlock", "sig_stats", "sig_stats_unlock",
              "sig_blocked"}

\* free_backend has run: backend_ctx points to freed memory.
BackendFreed == pc["main"] = "free_backend"

\* if (g_server && g_server->cache): main clears g_server after
\* translation_server_free has returned.
Sighup(th) ==
    /\ th \in sig.targets
    /\ sig.on = NoThread
    /\ sig.n < MaxSighup
    /\ pc[th] \notin {"idle", "m_done", "exited", Aborted}
    /\ pc["main"] # "exited"
    /\ sig' = [sig EXCEPT !.n = @ + 1, !.on = th, !.ret = pc[th]]
    /\ pc' = [pc EXCEPT ![th] = "sig_save"]
    /\ UNCHANGED <<config, clients, quota, ctx, file, lock, handlerVars, now,
                   elapsed, cache_bg_running, stats_out, cadence, nreq, toolVars, ghostVars>>

\* trans_cache_save(g_server->cache): rdlock, ops->save as far as its fopen.
\* A save through a freed backend_ctx may write nothing or truncate the file.
SighupSave(th) ==
    /\ pc[th] = "sig_save"
    /\ Held(th) # "wr"
    /\ Acquire(SignalFrame, "save")
    /\ \E f \in {ops_save_open(ctx, file).file} \cup (IF BackendFreed THEN {file} ELSE {}) :
          file' = f
    /\ pc' = [pc EXCEPT ![th] = "sig_save_unlock"]
    /\ UNCHANGED <<config, clients, quota, ctx, handlerVars, now, serverVars, nreq, toolVars,
                   ghostVars>>

\* pthread_rwlock_rdlock called by the thread that holds the lock for
\* writing.  POSIX leaves the outcome open: the call never returns (the
\* thread waits for itself), or it returns EDEADLK, which trans_cache_save
\* does not look at, so ops->save runs all the same.
SighupSaveSelfLocked(th) ==
    /\ pc[th] = "sig_save"
    /\ Held(th) = "wr"
    /\ \E outcome \in {"waits", "EDEADLK"} :
          IF outcome = "waits"
          THEN /\ pc' = [pc EXCEPT ![th] = "sig_blocked"]
               /\ UNCHANGED file
          ELSE /\ pc' = [pc EXCEPT ![th] = "sig_save_unlock"]
               /\ file' = ops_save_open(ctx, file).file
    /\ UNCHANGED <<config, clients, quota, ctx, lock, handlerVars, now, serverVars,
                   nreq, toolVars, ghostVars>>

\* pthread_rwlock_unlock(&cache->lock): gives back the handler's read hold;
\* when the rdlock had returned EDEADLK it gives back the write lock of the
\* interrupted operation instead.
SighupSaveUnlock(th) ==
    /\ pc[th] = "sig_save_unlock"
    /\ \E f \in {ops_save(ctx, file).file} \cup (IF BackendFreed THEN {file} ELSE {}) :
          file' = f
    /\ pthread_rwlock_unlock(IF Held(SignalFrame) = "rd" THEN SignalFrame ELSE th)
    /\ pc' = [pc EXCEPT ![th] = "sig_stats"]
    /\ UNCHANGED <<config, clients, quota, ctx, handlerVars, now, serverVars,
                   nreq, toolVars, ghostVars>>

\* trans_cache_stats(cache, &total, &active, &expired, threshold, days)
SighupStats(th) ==
    /\ pc[th] = "sig_stats"
    /\ Acquire(SignalFrame, "stats")
    /\ stats_out' = ops_stats(ctx, config.cache_threshold,
                              config.cache_cleanup_days, now)
    /\ pc' = [pc EXCEPT ![th] = "sig_stats_unlock"]
    /\ UNCHANGED <<config, clients, quota, ctx, file, handlerVars, now, elapsed,
                   cache_bg_running, sig, cadence, nreq, toolVars, ghostVars>>

\* unlock; the handler returns and th resumes where it was interrupted.
SighupStatsUnlock(th) ==
    /\ pc[th] = "sig_stats_unlock"
    /\ pthread_rwlock_unlock(SignalFrame)
    /\ pc' = [pc EXCEPT ![th] = sig.ret]
    /\ sig' = [sig EXCEPT !.on = NoThread, !.ret = "none"]
    /\ UNCHANGED <<config, clients, quota, ctx, file, handlerVars, now, elapsed,
                   cache_bg_running, stats_out, cadence, nreq, toolVars, ghostVars>>

SignalHandler(th) ==
    \/ Sighup(th)
    \/ SighupSave(th)
    \/ SighupSaveSelfLocked(th)
    \/ SighupSaveUnlock(th)
    \/ SighupStats(th)
    \/ SighupStatsUnlock(th)

(***************************************************************************)
(* The main thread: SIGINT/SIGTERM stop the daemon, then                   *)
(* translation_server_free.                                                *)
(***************************************************************************)
\* SIGINT/SIGTERM: g_shutdown = true; no further request is accepted.
Shutdown ==
    /\ pc["main"] = "serving"
    /\ pc' = [pc EXCEPT !["main"] = "stop_daemon"]
    /\ UNCHANGED <<config, clients, quota, ctx, file, lock, handlerVars, now,
                   serverVars, nreq, toolVars, ghostVars>>

\* MHD_stop_daemon returns once every connection thread has finished.
StopDaemon ==
    /\ pc["main"] = "stop_daemon"
    /\ \A h \in Handlers : pc[h] = "idle"
    /\ pc' = [pc EXCEPT !["main"] = "stop_bg"]
    /\ UNCHANGED <<config, clients, quota, ctx, file, lock, handlerVars, now,
                   serverVars, nreq, toolVars, ghostVars>>

\* if (server->cache_bg_running) { server->cache_bg_running = false; ...
StopBackground ==
    /\ pc["main"] = "stop_bg"
    /\ IF cache_bg_running
       THEN /\ cache_bg_running' = FALSE
            /\ pc' = [pc EXCEPT !["main"] = "join"]
       ELSE /\ UNCHANGED cache_bg_running
            /\ pc' = [pc EXCEPT !["main"] = "final_save"]
    /\ UNCHANGED <<config, clients, quota, ctx, file, lock, handlerVars, now,
                   elapsed, sig, stats_out, cadence, nreq, toolVars, ghostVars>>

\* Teardown that goes on without waiting for the background thread.
JoinBackground_nowait ==
    /\ pc["main"] = "join"
    /\ pc' = [pc EXCEPT !["main"] = "final_save"]
    /\ UNCHANGED <<config, clients, quota, ctx, file, lock, handlerVars, now,
                   serverVars, nreq, toolVars, ghostVars>>

\* pthread_join(server->cache_bg_thread, NULL)
JoinBackground ==
    /\ pc["main"] = "join"
    /\ pc["maint"] = "m_done"
    /\ pc' = [pc EXCEPT !["main"] = "final_save"]
    /\ UNCHANGED <<config, clients, quota, ctx, file, lock, handlerVars, now,
                   serverVars, nreq, toolVars, ghostVars>>

\* trans_cache_save(server->cache): rdlock, ops->save as far as its fopen.
FinalSave ==
    /\ pc["main"] = "final_save"
    /\ Acquire("main", "save")
    /\ file' = ops_save_open(ctx, file).file
    /\ pc' = [pc EXCEPT !["main"] = "final_save_unlock"]
    /\ UNCHANGED <<config, clients, quota, ctx, handlerVars, now, serverVars, nreq, toolVars,
                   ghostVars>>

\* ops->save writes the lines and closes the file; unlock.
FinalSaveUnlock ==
    /\ pc["main"] = "final_save_unlock"
    /\ file' = ops_save(ctx, file).file
    /\ pthread_rwlock_unlock("main")
    /\ pc' = [pc EXCEPT !["main"] = "free"]
    /\ UNCHANGED <<config, clients, quota, ctx, handlerVars, now, serverVars,
                   nreq, toolVars, ghostVars>>

\* trans_cache_free: ops->free_backend(backend_ctx), no lock call before it.
\* The text backend frees its entries; the SQLite rows stay in the database.
TransCacheFree ==
    /\ pc["main"] = "free"
    /\ Acquire("main", "free_backend")
    /\ ctx' = IF config.cache_type = "sqlite" THEN ctx
              ELSE [ctx EXCEPT !.entries = <<>>]
    /\ pc' = [pc EXCEPT !["main"] = "free_backend"]
    /\ UNCHANGED <<config, clients, quota, file, handlerVars, now, serverVars, nreq, toolVars,
                   ghostVars>>

\* pthread_rwlock_destroy(&cache->lock); free(cache)
TransCacheDestroy ==
    /\ pc["main"] = "free_backend"
    /\ pc' = [pc EXCEPT !["main"] = "exited"]
    /\ UNCHANGED <<config, clients, quota, ctx, file, lock, handlerVars, now,
                   serverVars, nreq, toolVars, ghostVars>>

MainThread ==
    \/ Shutdown
    \/ StopDaemon
    \/ StopBackground
    \/ JoinBackground
    \/ FinalSave
    \/ FinalSaveUnlock
    \/ TransCacheFree
    \/ TransCacheDestroy

(***************************************************************************)
(* The state after translation_server_init and translation_server_start:   *)
(* the cache as loaded from the cache file (an empty or missing file gives *)
(* an empty cache), the background thread started.                         *)
(***************************************************************************)
\* What a build may make of cleanup_days * 24 * 60 * 60, in the interval
\* computation and in the threshold computation: one outcome while the
\* product fits an int, either outcome from where it does not.
OverflowOutcomes(days) ==
    IF days * 675 < 2^24
    THEN {[interval |-> "exact", threshold |-> "exact"]}
    ELSE [interval : {"wraps", "exact"}, threshold : {"wraps", "exact"}]

Configs(types, thresholds, cleanups, dayset) ==
    {[cache_type |-> ty, cache_threshold |-> th, cache_cleanup_enabled |-> en,
      cache_cleanup_days |-> d, overflow |-> o] :
        ty \in types, th \in thresholds, en \in cleanups,
        <<d, o>> \in {<<d, o>> \in dayset \X [interval : {"wraps", "exact"},
                                                threshold : {"wraps", "exact"}] :
                         o \in OverflowOutcomes(d)}}

InitWithDays(types, thresholds, cleanups, dayset, nclients, nrequests, targets, files) ==
    /\ config \in Configs(types, thresholds, cleanups, dayset)
    /\ clients \in {c \in SUBSET Handlers :
                        Cardinality(c) = nclients /\ (c = {} \/ "h1" \in c)}
    /\ quota = nrequests
    /\ file \in files
    /\ ctx = IF config.cache_type = "sqlite"
             THEN [entries |-> <<>>, next_id |-> 1]
             ELSE text_backend_init(file)
    /\ lock = [w |-> NoThread, r |-> {}]
    /\ pc = [th \in Threads |->
                IF th \in Handlers THEN "idle"
                ELSE IF th = "maint" THEN "m_loop" ELSE "serving"]
    /\ req = [h \in Handlers |-> NoRequest]
    /\ cached = [h \in Handlers |-> NULL]
    /\ translated_text = [h \in Handlers |-> NoText]
    /\ now = 0
    /\ elapsed = 0
    /\ cache_bg_running = TRUE
    /\ nreq = 0
    /\ sig = [n |-> 0, targets |-> targets, on |-> NoThread, ret |-> "none"]
    /\ stats_out = [total |-> 0, active |-> 0, expired |-> 0]
    /\ last = [h \in Handlers |-> FreshLast]
    /\ support = [hash \in Hashes |-> ZeroSupport]
    /\ reconciled = [hash \in Hashes |-> ZeroSupport]
    /\ hits = [hash \in Hashes |-> 0]
    /\ refUse = {}
    /\ cadence = [slept |-> 0, sleeps |-> 0, saves |-> 0]
    /\ xlate = [h \in Handlers |-> NoCall]
    /\ mig = NoMigration

InitWith(types, thresholds, cleanups, nclients, nrequests, targets, files) ==
    InitWithDays(types, thresholds, cleanups, {1}, nclients, nrequests, targets, files)

Init == InitWith({"text", "sqlite"}, {2}, {TRUE}, 2, MaxLifeRequests, {}, {<<>>})

Next ==
    \/ \E h \in Handlers : Handler(h)
    \/ Maintainer
    \/ MainThread
    \/ Tick

Spec == Init /\ [][Next]_vars


(***************************************************************************)
(* The whole server with one connection at a time and SIGHUP landing on    *)
(* any thread.                                                             *)
(***************************************************************************)
InitSig == InitWith({"text", "sqlite"}, {2}, {TRUE}, 1, MaxSigRequests, Threads, {<<>>})

NextSig ==
    \/ \E h \in Handlers : Handler(h)
    \/ Maintainer
    \/ MainThread
    \/ \E th \in Threads : SignalHandler(th)
    \/ Tick

SpecSig == InitSig /\ [][NextSig]_vars

(***************************************************************************)
(* The request handlers alone, two connections at a time: the background   *)
(* thread stays in its sleep and no signal arrives.                        *)
(***************************************************************************)
InitReq == InitWith({"text", "sqlite"}, {2}, {TRUE}, 2, MaxRequests, {}, {<<>>})

NextReq ==
    \/ \E h \in Handlers : Handler(h)
    \/ Tick

SpecReq == InitReq /\ [][NextReq]_vars

(***************************************************************************)
(* One client, the text backend started on a cache file left by an earlier *)
(* run or written by another tool.                                         *)
(***************************************************************************)
FileLines ==
    {[id |-> i, hash |-> trans_cache_calculate_hash(r[1], r[2], r[3]),
      from |-> r[1], to |-> r[2], source |-> r[3], target |-> "Hello",
      count |-> n, last_used |-> 0, created_at |-> t] :
        i \in {1, 2}, r \in Requests, n \in {0, 1, 2}, t \in {0, DaySeconds}}
    \cup {NotJson, Incomplete}

CacheFiles ==
    UNION {[1..n -> FileLines] : n \in 0..MaxFileLines}

InitLoad == InitWith({"text"}, {2}, {TRUE}, 1, MaxLoadRequests, {}, CacheFiles)

SpecLoad == InitLoad /\ [][NextReq]_vars

(***************************************************************************)
(* The text backend started on a cache file whose ids reach INT_MAX (cJSON *)
(* hands every larger number over as INT_MAX too), two clients.            *)
(***************************************************************************)
IdFileLines ==
    {[id |-> i, hash |-> trans_cache_calculate_hash("kor", "eng", src),
      from |-> "kor", to |-> "eng", source |-> src, target |-> "Hello",
      count |-> 2, last_used |-> 0, created_at |-> 0] :
        i \in {1, 2, IntMax}, src \in {"annyeong", "gamsa"}}

\* Files whose lines carry different ids.
IdFiles ==
    UNION {{f \in [1..n -> IdFileLines] :
               \A i, j \in 1..n : i # j => f[i].id # f[j].id} :
           n \in 0..MaxFileLines}

\* A loadable line whose id + 1 overflows.
LoadOverflows(f) ==
    \E i \in 1..Len(f) : DOMAIN f[i] = EntryFields /\ f[i].id = IntMax

\* The overflow of entry->id + 1 in load_cache_from_file trapping (a build
\* with -ftrapv or a trapping sanitizer): the process ends in startup.
StartupAbort ==
    /\ LoadOverflows(file)
    /\ nreq = 0
    /\ \A th \in Threads : pc[th] # Aborted
    /\ pc' = [th \in Threads |-> Aborted]
    /\ UNCHANGED <<config, clients, quota, ctx, file, lock, handlerVars, now,
                   serverVars, nreq, toolVars, ghostVars>>

InitIds == InitWith({"text"}, {2}, {TRUE}, 2, MaxLoadRequests, {}, IdFiles)

NextIds ==
    \/ \E h \in Handlers : Handler(h)
    \/ Tick
    \/ StartupAbort

SpecIds == InitIds /\ [][NextIds]_vars

(***************************************************************************)
(* One client, openai_translate followed attempt by attempt.               *)
(***************************************************************************)
InitTranslate ==
    InitWith({"text", "sqlite"}, {2}, {TRUE}, 1, MaxTranslateRequests, {}, {<<>>})

HandlerStepwise(h) ==
    \/ StartRequest(h)
    \/ Lookup(h)
    \/ LookupUnlock(h)
    \/ CheckThreshold(h)
    \/ HitUpdateCount(h)
    \/ HitUnlock(h)
    \/ HitRespond(h)
    \/ TranslateCall(h)
    \/ TranslateAttempt(h)
    \/ TranslateReturn(h)
    \/ ReconcileUpdateCount(h)
    \/ ReconcileUpdateTranslation(h)
    \/ ReconcileAdd(h)
    \/ ReconcileUnlock(h)

NextTranslate == \E h \in Handlers : HandlerStepwise(h)

SpecTranslate == InitTranslate /\ [][NextTranslate]_vars

(***************************************************************************)
(* One client, with update_translation free to fail.                       *)
(***************************************************************************)
InitNoMem ==
    InitWith({"text", "sqlite"}, {2}, {TRUE}, 1, MaxTranslateRequests, {}, {<<>>})

NextNoMem ==
    \/ \E h \in Handlers : Handler(h)
    \/ \E h \in Handlers : ReconcileUpdateTranslationFails(h)

SpecNoMem == InitNoMem /\ [][NextNoMem]_vars

(***************************************************************************)
(* One client sending its requests one after another.                      *)
(***************************************************************************)
InitSeq == InitWith({"text", "sqlite"}, {2, 3}, {TRUE}, 1, MaxSeqRequests, {}, {<<>>})

SpecSeq == InitSeq /\ [][NextReq]_vars


(***************************************************************************)
(* The background thread alone, every loop iteration a step of its own: no *)
(* connection arrives and no signal, the text backend holds what the cache *)
(* file held at start-up, and the configuration ranges over cleanup        *)
(* disabled and over a cleanup age beyond INT_MAX seconds.                 *)
(***************************************************************************)
LongCleanupDays == 36500

MaintFileLine(i, t) ==
    [id |-> i, hash |-> trans_cache_calculate_hash("kor", "eng", "annyeong"),
     from |-> "kor", to |-> "eng", source |-> "annyeong", target |-> "Hello",
     count |-> 1, last_used |-> t, created_at |-> 0]

MaintFiles ==
    {<<MaintFileLine(1, DaySeconds), MaintFileLine(2, 0), MaintFileLine(3, DaySeconds)>>}

InitMaint ==
    InitWithDays({"text"}, {2}, {TRUE, FALSE}, {1, LongCleanupDays}, 0, 0, {}, MaintFiles)

NextMaint ==
    \/ MaintLoop
    \/ MaintSleep
    \/ MaintSave
    \/ MaintSaveUnlock
    \/ MaintCleanup
    \/ MaintCleanupUnlock
    \/ Tick

SpecMaint == InitMaint /\ [][NextMaint]_vars

(***************************************************************************)
(* The whole server on the text backend with cache_cleanup_days = 36500.   *)
(***************************************************************************)
InitLongDays ==
    InitWithDays({"text"}, {2}, {TRUE}, {LongCleanupDays}, 2, MaxLifeRequests,
                 {}, {<<>>})

SpecLongDays == InitLongDays /\ [][Next]_vars

(***************************************************************************)
(* cache_tool migrate, run twice on an idle cache: the text cache file     *)
(* into an empty SQLite database, then that database into a new, empty     *)
(* text file.  `file` is the original cache file throughout; ctx is the    *)
(* original cache, then the database, then the final text cache.           *)
(***************************************************************************)
\* parse_backend_type: strcasecmp against the four names; any other string
\* is taken for the text backend.
LowerCase(backend_str) ==
    CASE backend_str = "SQLITE" -> "sqlite"
      [] backend_str = "Text" -> "text"
      [] OTHER -> backend_str

parse_backend_type(backend_str) ==
    LET s == LowerCase(backend_str)
    IN  IF s \in {"text", "sqlite", "mongodb", "redis"} THEN s ELSE "text"

\* migrate_entry_callback with failed_count left alone on a failed add.
migrate_entry_callback_nocount(mctx, e, to_type, t) ==
    LET r == IF to_type = "sqlite"
             THEN sqlite_backend_add(mctx.dest_cache, e.from_lang, e.to_lang,
                                     e.source_text, e.translated_text, t)
             ELSE text_backend_add(mctx.dest_cache, e.from_lang, e.to_lang,
                                   e.source_text, e.translated_text, t)
    IN  IF r.result # 0
        THEN mctx
        ELSE [mctx EXCEPT !.dest_cache = r.ctx, !.migrated_count = @ + 1]

\* migrate_entry_callback: trans_cache_add on the destination; a failed add
\* is counted and the iteration goes on.
migrate_entry_callback(mctx, e, to_type, t) ==
    LET r == IF to_type = "sqlite"
             THEN sqlite_backend_add(mctx.dest_cache, e.from_lang, e.to_lang,
                                     e.source_text, e.translated_text, t)
             ELSE text_backend_add(mctx.dest_cache, e.from_lang, e.to_lang,
                                   e.source_text, e.translated_text, t)
    IN  IF r.result # 0
        THEN [mctx EXCEPT !.failed_count = @ + 1]
        ELSE [mctx EXCEPT !.dest_cache = r.ctx, !.migrated_count = @ + 1]

\* iterate_text_backend / iterate_sqlite_backend: every source entry, in
\* stored order / ORDER BY id, goes through the callback.
RECURSIVE MigrateEntries(_, _, _, _, _)
MigrateEntries(src, i, mctx, to_type, t) ==
    IF i > Len(src) THEN mctx
    ELSE MigrateEntries(src, i + 1,
                        migrate_entry_callback(mctx, src[i], to_type, t),
                        to_type, t)

EmptyCache == [entries |-> <<>>, next_id |-> 1]

\* cmd_migrate from "Parse backend types" on: the unsupported kinds are
\* turned away, source and destination are initialized (the destination
\* store is new), the entries are migrated, the destination is saved; the
\* return value is 1 if an add failed, else 0.
cmd_migrate(from_backend, to_backend, source, t) ==
    LET from_type == parse_backend_type(from_backend)
        to_type == parse_backend_type(to_backend)
    IN  IF \/ from_type \in {"mongodb", "redis"}
           \/ to_type \in {"mongodb", "redis"}
        THEN [result |-> -1, initialized |-> {}, dest_cache |-> EmptyCache,
              migrated_count |-> 0, failed_count |-> 0]
        ELSE LET mctx == MigrateEntries(source.entries, 1,
                                        [dest_cache |-> EmptyCache,
                                         migrated_count |-> 0,
                                         failed_count |-> 0],
                                        to_type, t)
             IN  [result |-> IF mctx.failed_count > 0 THEN 1 ELSE 0,
                  initialized |-> {from_type, to_type},
                  dest_cache |-> mctx.dest_cache,
                  migrated_count |-> mctx.migrated_count,
                  failed_count |-> mctx.failed_count]

\* The exit status the shell sees for main's return value.
ExitStatus(result) == result % 256

MigrateSources == {"annyeong", "gamsa"}

MigrateLines ==
    {[hash |-> trans_cache_calculate_hash("kor", "eng", src),
      from |-> "kor", to |-> "eng", source |-> src, target |-> tgt,
      count |-> 1, last_used |-> 0, created_at |-> 0] :
        src \in MigrateSources, tgt \in Translations}

\* The cache files a server run can leave: ids in order of insertion.
MigrateFiles ==
    UNION {{[i \in 1..n |-> [id |-> i] @@ f[i]] : f \in [1..n -> MigrateLines]} :
              n \in 0..MaxMigrateLines}

MigrateTextToSqlite ==
    /\ pc["main"] = "migrate_text"
    /\ ctx' = cmd_migrate("text", "sqlite", text_backend_init(file), now).dest_cache
    /\ pc' = [pc EXCEPT !["main"] = "migrate_sqlite"]
    /\ UNCHANGED <<config, clients, quota, file, lock, handlerVars, now,
                   serverVars, nreq, toolVars, ghostVars>>

MigrateSqliteToText ==
    /\ pc["main"] = "migrate_sqlite"
    /\ ctx' = text_backend_init(
                 text_backend_save(
                     cmd_migrate("sqlite", "text", ctx, now).dest_cache,
                     <<>>).file)
    /\ pc' = [pc EXCEPT !["main"] = "migrate_done"]
    /\ UNCHANGED <<config, clients, quota, file, lock, handlerVars, now,
                   serverVars, nreq, toolVars, ghostVars>>

\* A cache_tool process before its command runs: no server threads.
InitCacheTool(files, migs, at) ==
    /\ config \in Configs({"text"}, {2}, {TRUE}, {1})
    /\ clients = {}
    /\ quota = 0
    /\ file \in files
    /\ ctx = text_backend_init(file)
    /\ lock = [w |-> NoThread, r |-> {}]
    /\ pc = [th \in Threads |->
                IF th \in Handlers THEN "idle"
                ELSE IF th = "maint" THEN "m_done" ELSE at]
    /\ req = [h \in Handlers |-> NoRequest]
    /\ cached = [h \in Handlers |-> NULL]
    /\ translated_text = [h \in Handlers |-> NoText]
    /\ now = 0
    /\ elapsed = 0
    /\ cache_bg_running = FALSE
    /\ nreq = 0
    /\ sig = [n |-> 0, targets |-> {}, on |-> NoThread, ret |-> "none"]
    /\ stats_out = [total |-> 0, active |-> 0, expired |-> 0]
    /\ last = [h \in Handlers |-> FreshLast]
    /\ support = [hash \in Hashes |-> ZeroSupport]
    /\ reconciled = [hash \in Hashes |-> ZeroSupport]
    /\ hits = [hash \in Hashes |-> 0]
    /\ refUse = {}
    /\ cadence = [slept |-> 0, sleeps |-> 0, saves |-> 0]
    /\ xlate = [h \in Handlers |-> NoCall]
    /\ mig \in migs

InitMigrate == InitCacheTool(MigrateFiles, {NoMigration}, "migrate_text")

NextMigrate ==
    \/ MigrateTextToSqlite
    \/ MigrateSqliteToText

SpecMigrate == InitMigrate /\ [][NextMigrate]_vars

(***************************************************************************)
(* cache_tool migrate --from F --from-config P --to T --to-config Q, one   *)
(* run: any backend names, a source store that a server or an earlier      *)
(* migration left, a destination store that does not exist yet.  ctx and   *)
(* file are the destination once the command has returned.                 *)
(***************************************************************************)
BackendNames == {"text", "Text", "sqlite", "SQLITE", "mongodb", "redis", "mysql"}

\* The databases a migration from a cache file leaves.
SqliteDatabases ==
    {cmd_migrate("text", "sqlite", text_backend_init(f), 0).dest_cache :
        f \in MigrateFiles}

\* trans_cache_init_with_backend(from_type, from_config, NULL): the source
\* store opened.
SourceStores(from_backend) ==
    IF parse_backend_type(from_backend) = "sqlite" THEN SqliteDatabases
    ELSE {text_backend_init(f) : f \in MigrateFiles}

MigrateRuns ==
    {[NoMigration EXCEPT !.from_backend = f, !.to_backend = t, !.source = s] :
        f \in BackendNames, t \in BackendNames, s \in UNION {SourceStores(x) : x \in BackendNames}}

\* main: "migrate" goes to cmd_migrate and its return value is the exit
\* status.
CmdMigrate ==
    /\ pc["main"] = "tool_migrate"
    /\ mig.source \in SourceStores(mig.from_backend)
    /\ LET r == cmd_migrate(mig.from_backend, mig.to_backend, mig.source, now)
       IN  /\ mig' = [mig EXCEPT !.initialized = r.initialized,
                                 !.migrated_count = r.migrated_count,
                                 !.failed_count = r.failed_count,
                                 !.status = ExitStatus(r.result)]
           /\ ctx' = r.dest_cache
           /\ file' = IF r.result >= 0 /\ parse_backend_type(mig.to_backend) = "text"
                      THEN text_backend_save(r.dest_cache, file).file
                      ELSE file
    /\ pc' = [pc EXCEPT !["main"] = "tool_exit"]
    /\ UNCHANGED <<config, clients, quota, lock, handlerVars, now,
                   serverVars, nreq, xlate, ghostVars>>

InitTool ==
    /\ InitCacheTool({<<>>}, MigrateRuns, "tool_migrate")
    /\ mig.source \in SourceStores(mig.from_backend)

NextTool == CmdMigrate

SpecTool == InitTool /\ [][NextTool]_vars

(***************************************************************************)
(* The backend operation a thread is inside of, with the facade's lock     *)
(* call behind it and its unlock still ahead.                              *)
(***************************************************************************)
RunningOp(th) ==
    CASE pc[th] = "lookup_unlock" -> "lookup"
      [] pc[th] = "hit_unlock" -> "update_count"
      [] pc[th] = "reconcile_unlock" -> last[th].op
      [] pc[th] = "m_save_unlock" -> "save"
      [] pc[th] = "m_cleanup_unlock" -> "cleanup"
      [] pc[th] = "sig_save_unlock" -> "save"
      [] pc[th] = "sig_stats_unlock" -> "stats"
      [] pc[th] = "final_save_unlock" -> "save"
      [] pc[th] = "free_backend" -> "free_backend"
      [] OTHER -> "none"

\* Under whose name the running operation's lock call was made.
Caller(th) == IF pc[th] \in SigLabels THEN SignalFrame ELSE th

Reconciling == {"add", "update_count", "update_translation"}

(***************************************************************************)
(* Properties.                                                             *)
(***************************************************************************)

\* C1: a response served from the cache carries a text that the external
\* translator has returned for that key in at least cache_threshold
\* reconciled requests since the entry was created or last replaced.
C1_ServedOnlyAfterThreshold ==
    \A h \in Handlers :
        last[h].fromCache => last[h].supportAtServe >= config.cache_threshold

\* C2: a request whose lookup found an entry with count >= cache_threshold
\* never calls the external translator, and what it answers is the
\* translation that entry held, after one update_count.
C2_ConfirmedEntryIsServed ==
    \A h \in Handlers :
        (last[h].found /\ last[h].lkCount >= config.cache_threshold) =>
            /\ last[h].ext = NoText
            /\ pc[h] # "translate"
            /\ (last[h].response # NoText =>
                    last[h].op = "hit" /\ last[h].response = last[h].lkText)

\* C3: starting from an empty cache with cache_threshold = N, each of the
\* first N - 1 sequential requests for the key invokes the external
\* translator, and a request that finds the entry with count >= N does not.
C3_ThresholdGatesTranslator ==
    \A h \in clients :
        /\ (pc[h] = "idle" /\ nreq >= 1 /\ nreq <= config.cache_threshold - 1) =>
              last[h].ext # NoText
        /\ (last[h].found /\ last[h].lkCount >= config.cache_threshold) =>
              (last[h].ext = NoText /\ pc[h] # "translate")

\* C3 witness: a request after the first N - 1 found the entry confirmed and
\* was answered from the cache, the earlier ones having called the translator.
C3_Witness ==
    \E h \in clients :
        /\ nreq > config.cache_threshold
        /\ pc[h] = "idle"
        /\ last[h].found
        /\ last[h].lkCount >= config.cache_threshold
        /\ last[h].fromCache
        /\ reconciled[HashOf(req[h])][last[h].response] >= config.cache_threshold

\* C4: when a request's external translation differs from the translation
\* stored for its key, the entry holds the new translation with count = 1
\* once that request has reconciled.
C4_DivergentTranslationResets ==
    \A h \in Handlers :
        (last[h].op \in Reconciling /\ last[h].existed
            /\ last[h].storedBefore # last[h].ext) =>
            (last[h].afterText = last[h].ext /\ last[h].afterCount = 1)

\* C5: once every request has completed, the stored count of a key equals
\* the number of requests whose external translation matched the stored
\* translation plus the number of cache-hit confirmations.
C5_FinalCountIsConfirmations ==
    (\A h \in Handlers : pc[h] = "idle") =>
        \A hash \in Hashes :
            StoredText(ctx, hash) # NoText =>
                StoredCount(ctx, hash) =
                    reconciled[hash][StoredText(ctx, hash)] + hits[hash]

\* C6: no two stored entries of a backend have the same hash.
C6_HashUnique ==
    \A i, j \in 1..Len(ctx.entries) :
        i # j => ctx.entries[i].hash # ctx.entries[j].hash

\* C7: a request that observed a miss and reconciles after a concurrent
\* request's add has created the entry applies one update_count or
\* update_translation to that entry (the add happens once).
C7_MissThenAddThenUpdate ==
    \A h \in Handlers :
        (last[h].missed /\ last[h].op \in Reconciling /\ last[h].existed) =>
            (last[h].op \in {"update_count", "update_translation"}
                /\ last[h].result = 0)

\* C8: once an entry's count has reached cache_threshold its translated_text
\* does not change for as long as the entry exists.
C8_WriteOnceAfterConfirmation ==
    [][\A i \in 1..Len(ctx.entries) :
          ctx.entries[i].count >= config.cache_threshold =>
              \A j \in 1..Len(ctx'.entries) :
                  ctx'.entries[j].id = ctx.entries[i].id =>
                      ctx'.entries[j].translated_text = ctx.entries[i].translated_text]_vars

\* C9: no thread reads or writes through an entry reference returned by
\* lookup after the lock its lookup ran under has been released, unless it
\* holds a copy of the fields.
C9_NoReferencePastUnlock == refUse = {}

\* C10: every backend operation, free_backend included, runs while its
\* caller holds the facade lock: shared for lookup, save and stats,
\* exclusive for add, update_count, update_translation and cleanup.
C10_BackendOpsUnderLock ==
    \A th \in Threads :
        LET op == RunningOp(th)
        IN  /\ op \in {"lookup", "save", "stats"} => Held(Caller(th)) = "rd"
            /\ op \in {"add", "update_count", "update_translation", "cleanup"} =>
                  Held(Caller(th)) = "wr"
            /\ op = "free_backend" => Held(Caller(th)) # "none"


\* C11: a request thread does not hold the facade lock while its call to the
\* external translator is in progress: the lookup's lock is released before
\* the call starts, and the reconciliation's lock is taken only after the
\* call has returned a translation.
C11_NoLockAcrossTranslation ==
    \A h \in Handlers :
        /\ pc[h] \in {"check", "translate", "update_count", "update_translation", "add"} =>
              Held(h) = "none"
        /\ (pc[h] = "reconcile_unlock" /\ Held(h) = "wr") =>
              (last[h].ext \in Translations /\ translated_text[h] = last[h].ext)

\* C11 witness: while one handler is inside the external call after a lookup
\* that found the entry, another thread holds the lock exclusively.
C11_Witness ==
    \E h, g \in Handlers :
        /\ h # g
        /\ pc[h] = "translate"
        /\ cached[h] # NULL
        /\ Held(g) = "wr"


\* C12: no thread waits for the facade lock while that same thread already
\* holds it, whether it runs a request handler, the maintainer, teardown or
\* the SIGHUP-triggered save.
C12_NoSelfWaitOnLock ==
    \A th \in Threads : ~(pc[th] = "sig_blocked" /\ Held(th) # "none")


\* C13: every entry a backend holds has count >= 1, entries loaded from the
\* cache file at initialization included.
C13_CountAtLeastOne ==
    \A i \in 1..Len(ctx.entries) : ctx.entries[i].count >= 1

\* C14: every entry a backend holds has last_used >= created_at.
C14_LastUsedNotBeforeCreated ==
    \A i \in 1..Len(ctx.entries) :
        ctx.entries[i].last_used >= ctx.entries[i].created_at


\* C15: add for a (from, to, text) whose hash the backend already stores
\* returns failure and leaves the stored entries as they were.
C15_AddOnStoredHashFails ==
    [][\A h \in Handlers :
          (pc[h] = "add" /\ pc'[h] = "reconcile_unlock"
              /\ IndexOfHash(ctx.entries, HashOf(req[h])) # 0) =>
              (last'[h].result # 0 /\ ctx'.entries = ctx.entries)]_vars


\* The entry a lookup result designates: the copy itself, or the entry of c
\* the pointer points to.
EntryOfResult(c, res) ==
    IF res.kind = "copy" THEN res.entry
    ELSE c.entries[IndexOfId(c.entries, res.id)]

\* C16: after a successful add of (from, to, text, translation) where no
\* entry with that hash existed, the next lookup of the same (from, to, text)
\* returns an entry with count = 1 and the translation that was added.
C16_LookupAfterAdd ==
    [][\A h \in Handlers :
          (pc[h] = "add" /\ pc'[h] = "reconcile_unlock"
              /\ IndexOfHash(ctx.entries, HashOf(req[h])) = 0
              /\ last'[h].result = 0) =>
              LET r == ops_lookup(ctx', req[h], now)
              IN  /\ r.result # NULL
                  /\ EntryOfResult(r.ctx, r.result).count = 1
                  /\ EntryOfResult(r.ctx, r.result).translated_text = translated_text[h]]_vars

\* C16 witness: a request has just added its translation for a key that had
\* no entry, and the add succeeded.
C16_Witness ==
    \E h \in Handlers :
        /\ pc[h] = "reconcile_unlock"
        /\ last[h].op = "add"
        /\ last[h].result = 0
        /\ ~last[h].existed
        /\ StoredText(ctx, HashOf(req[h])) = translated_text[h]

\* update_count operations applied to the key's entry since it was added or
\* its translation replaced: the confirming reconciliations after the first
\* one, and the cache hits.
UpdateCountsSinceFresh(hash) ==
    support[hash][StoredText(ctx, hash)] - 1 + hits[hash]

\* C17: update_count applied k times to a freshly added entry, with no other
\* mutation of the key in between, leaves the stored count at 1 + k.
C17_CountIsOnePlusUpdates ==
    (\A h \in Handlers : pc[h] = "idle") =>
        \A hash \in Hashes :
            StoredText(ctx, hash) # NoText =>
                StoredCount(ctx, hash) = 1 + UpdateCountsSinceFresh(hash)

\* C17 witness: an entry that has gone through three update_count calls, one
\* of them on the cache-hit path.
C17_Witness ==
    /\ \A h \in Handlers : pc[h] = "idle"
    /\ \E hash \in Hashes :
          /\ StoredText(ctx, hash) # NoText
          /\ UpdateCountsSinceFresh(hash) = 3
          /\ hits[hash] >= 1
          /\ StoredCount(ctx, hash) = 4


\* C18: the SQLite backend's update_count is an atomic increment of the
\* stored row: every update_count that completes leaves the stored count one
\* higher than it was, also when the caller's entry comes from a lookup that
\* ran before another caller's update.
C18_SqliteUpdateCountIncrements ==
    [][config.cache_type = "sqlite" =>
          \A h \in Handlers :
              (pc[h] \in {"hit_update", "update_count"}
                  /\ pc'[h] \in {"hit_unlock", "reconcile_unlock"}) =>
                  StoredCount(ctx', HashOf(req[h])) =
                      StoredCount(ctx, HashOf(req[h])) + 1]_vars

\* Every request so far has been answered with "Hello", by the translator or
\* from the cache, cache_threshold is 3 and k requests have completed.
AllHelloAfter(k) ==
    /\ config.cache_threshold = 3
    /\ nreq = k
    /\ \A h \in clients : pc[h] = "idle"
    /\ \A hash \in Hashes : reconciled[hash]["Hello"] + hits[hash] = k

\* C19: with cache_threshold = 3 and count = 1 after a first request, three
\* further identical requests answered "Hello" by the translator leave count
\* at 2, 3 and 3, and the fifth request is answered without an external call
\* and raises count to 4.
C19_ThresholdThreeMarch ==
    \A hash \in Hashes, h \in clients :
        /\ AllHelloAfter(2) => StoredCount(ctx, hash) = 2
        /\ AllHelloAfter(3) => StoredCount(ctx, hash) = 3
        /\ AllHelloAfter(4) => StoredCount(ctx, hash) = 3
        /\ AllHelloAfter(5) =>
              (StoredCount(ctx, hash) = 4 /\ last[h].ext = NoText)

\* C19 as the code has it: the second and third request are translated and
\* leave count at 2 and 3; the fourth finds count = 3, is answered "Hello"
\* from the cache without an external call and raises count to 4; the fifth
\* likewise raises it to 5.
C19_ThresholdThreeMarch_amended ==
    \A hash \in Hashes, h \in clients :
        /\ AllHelloAfter(1) => (StoredCount(ctx, hash) = 1 /\ last[h].ext = "Hello")
        /\ AllHelloAfter(2) => (StoredCount(ctx, hash) = 2 /\ last[h].ext = "Hello")
        /\ AllHelloAfter(3) => (StoredCount(ctx, hash) = 3 /\ last[h].ext = "Hello")
        /\ AllHelloAfter(4) =>
              (StoredCount(ctx, hash) = 4 /\ last[h].ext = NoText
                  /\ last[h].response = "Hello")
        /\ AllHelloAfter(5) =>
              (StoredCount(ctx, hash) = 5 /\ last[h].ext = NoText
                  /\ last[h].response = "Hello")

\* C19 witness: the fifth identical request has been answered from the cache.
C19_Witness ==
    /\ AllHelloAfter(5)
    /\ \E h \in clients : last[h].fromCache /\ last[h].response = "Hello"
    /\ \A hash \in Hashes : StoredCount(ctx, hash) = 5

\* C20: immediately after cleanup(d) executed at time T the backend holds no
\* entry with last_used < T - d * 86400.
C20_CleanupRemovesExpired ==
    [][(pc["maint"] = "m_cleanup" /\ pc'["maint"] = "m_cleanup_unlock") =>
          \A i \in 1..Len(ctx'.entries) :
              ~(ctx'.entries[i].last_used < now - config.cache_cleanup_days * 86400)]_vars

\* C20 witness: a cleanup has just removed the only entry, which had not
\* been used for more than cache_cleanup_days.
C20_Witness ==
    /\ pc["maint"] = "m_cleanup_unlock"
    /\ Len(ctx.entries) = 0
    /\ ctx.next_id > 1
    /\ now > config.cache_cleanup_days * 86400

\* C22: every lookup that finds an entry leaves that entry's stored last_used
\* equal to the time of the lookup, in the text backend and in the SQLite
\* backend alike.
C22_LookupTouchesLastUsed ==
    [][\A h \in Handlers :
          (pc[h] = "lookup" /\ pc'[h] = "lookup_unlock" /\ cached'[h] # NULL) =>
              LET i == IndexOfHash(ctx'.entries, HashOf(req[h]))
              IN  i # 0 /\ ctx'.entries[i].last_used = now]_vars

\* Where the background thread stands in cache_background_thread, whether or
\* not a signal handler is running on top of it.
MaintAt == IF pc["maint"] \in SigLabels THEN sig.ret ELSE pc["maint"]

\* C23: once cache_bg_running is cleared the background thread finishes at
\* most the iteration in progress: a sleep that ends with the flag clear is
\* followed by no save and no cleanup, no further sleep is started, and the
\* thread is never left waiting for good, so it terminates within one sleep
\* plus the operation in progress.
C23_MaintainerStopsPromptly ==
    [][/\ (~cache_bg_running /\ MaintAt = "m_sleep") => MaintAt' \in {"m_sleep", "m_done"}
       /\ (~cache_bg_running /\ MaintAt # "m_sleep") => MaintAt' # "m_sleep"
       /\ ~cache_bg_running' => pc'["maint"] # "sig_blocked"]_vars

\* C24: teardown frees the cache only after the background thread has
\* terminated and been joined, so the thread never runs save or cleanup on a
\* freed cache.
C24_FreeAfterJoin ==
    pc["main"] \in {"free_backend", "exited"} => pc["maint"] = "m_done"

\* C24 witness: the cache has been freed after a background thread that had
\* saved the cache at least once was joined.
C24_Witness ==
    /\ pc["main"] = "free_backend"
    /\ pc["maint"] = "m_done"
    /\ elapsed > save_interval

\* a is b with some of its elements left out, the others in b's order.
RECURSIVE IsSubSeq(_, _)
IsSubSeq(a, b) ==
    IF a = <<>> THEN TRUE
    ELSE IF b = <<>> THEN FALSE
    ELSE IF Head(a) = Head(b) THEN IsSubSeq(Tail(a), Tail(b))
    ELSE IsSubSeq(a, Tail(b))

\* e.last_used >= t - days * 86400, written without the product.
UsedWithinDays(e, t, days) == (t - e.last_used + 86399) \div 86400 <= days

\* C21: cleanup(days) keeps every entry whose last_used >= now - days * 86400:
\* each of them is still stored afterwards with all its fields as they were,
\* and the entries that survive stand in the order they had before.
C21_CleanupKeepsFresh ==
    [][(pc["maint"] = "m_cleanup" /\ pc'["maint"] = "m_cleanup_unlock") =>
          /\ IsSubSeq(SelectSeq(ctx.entries,
                          LAMBDA e : UsedWithinDays(e, now, config.cache_cleanup_days)),
                      ctx'.entries)
          /\ IsSubSeq(ctx'.entries, ctx.entries)]_vars

\* C25: while cache_bg_running stays set, every loop iteration of the
\* background thread begins with one sleep of save_interval seconds and
\* calls trans_cache_save exactly once, after that sleep.
C25_SaveOncePerIteration ==
    [][cache_bg_running =>
          /\ (pc["maint"] = "m_sleep" /\ pc'["maint"] # "m_sleep") =>
                /\ cadence.sleeps = 0 /\ cadence.saves = 0
                /\ cadence'.slept = cadence.slept + 5
          /\ (pc["maint"] = "m_save" /\ pc'["maint"] = "m_save_unlock") =>
                cadence.sleeps = 1 /\ cadence.saves = 0
          /\ (pc["maint"] # "m_loop" /\ pc'["maint"] = "m_loop") =>
                cadence'.sleeps = 1 /\ cadence'.saves = 1]_vars

\* C25 witness: the second iteration has ended, ten seconds of sleep and a
\* save in each iteration behind the thread.
C25_Witness ==
    /\ cache_bg_running
    /\ pc["maint"] = "m_loop"
    /\ cadence = [slept |-> 10, sleeps |-> 1, saves |-> 1]

\* C26: with cleanup enabled and cache_cleanup_days >= 1 the background
\* thread calls cleanup exactly when the time it has slept since it started
\* or since its previous cleanup reaches max(3600, days * 86400 / 10) seconds
\* (days * 86400 / 10 = days * 8640), and with cleanup disabled it never
\* calls it.
C26_CleanupCadence ==
    [][/\ (pc["maint"] # "m_cleanup" /\ pc'["maint"] = "m_cleanup") =>
             /\ config.cache_cleanup_enabled
             /\ cadence.slept = Max(3600, config.cache_cleanup_days * 8640)
       /\ (pc["maint"] = "m_save_unlock" /\ pc'["maint"] = "m_loop"
             /\ config.cache_cleanup_enabled) =>
             cadence.slept < Max(3600, config.cache_cleanup_days * 8640)]_vars

\* C27: whenever the external translator has returned a translation, the
\* handler goes through its cache operation, whatever that operation
\* returns, and answers 200 with that translation.
C27_ResponseDespiteCacheFailure ==
    [][\A h \in Handlers :
          /\ (pc[h] \in Reconciling /\ pc'[h] # pc[h]) => pc'[h] = "reconcile_unlock"
          /\ (pc[h] = "reconcile_unlock" /\ pc'[h] # pc[h]) =>
                /\ pc'[h] = "idle"
                /\ last'[h].response = translated_text[h]
                /\ translated_text[h] = last[h].ext]_vars

\* C28: the text backend's save replaces the cache file atomically: whatever
\* step changes the file leaves in it a complete image of the in-memory
\* entries, so that at every instant the file holds its previous content or
\* such an image.
C28_SaveIsAtomic ==
    [][config.cache_type = "text" =>
          file' \in {file, text_backend_save(ctx', file).file}]_vars

TupleOf(e) == <<e.from_lang, e.to_lang, e.source_text, e.translated_text>>

\* How many entries of es carry the tuple x.
TupleCount(es, x) == Cardinality({i \in 1..Len(es) : TupleOf(es[i]) = x})

\* C30: migrating an idle text cache into an empty SQLite database and that
\* database into a new empty text file yields a cache with as many entries
\* as the original and the same multiset of (from, to, source_text,
\* translated_text) tuples.
C30_MigrateRoundTrip ==
    pc["main"] = "migrate_done" =>
        LET original == text_backend_init(file).entries
        IN  /\ Len(ctx.entries) = Len(original)
            /\ \A i \in 1..Len(original) :
                  TupleCount(ctx.entries, TupleOf(original[i]))
                      = TupleCount(original, TupleOf(original[i]))

\* C31: a migrate run that reaches the migration exits with status 0 exactly
\* when every source entry is in the destination, and with status 1 exactly
\* when an add failed and a source entry is missing from it.
C31_MigrateExitStatus ==
    (pc["main"] = "tool_exit" /\ mig.initialized # {}) =>
        /\ mig.status \in {0, 1}
        /\ mig.status = 0 <=> Len(ctx.entries) = Len(mig.source.entries)
        /\ mig.status = 1 <=> Len(ctx.entries) < Len(mig.source.entries)
        /\ mig.status = 1 <=> mig.failed_count >= 1

\* C31: a run that lost an entry to a failed add has exited with status 1,
\* and a run that took entries over completely with status 0.
C31_Witness ==
    /\ pc["main"] = "tool_exit"
    /\ mig.initialized = {"text", "sqlite"}
    /\ parse_backend_type(mig.to_backend) = "sqlite"
    /\ Len(mig.source.entries) = 3
    /\ mig.failed_count = 1
    /\ mig.status = 1

\* C32: a migrate run whose source or destination backend kind is anything
\* other than text or sqlite ends with an error, with no backend initialized
\* and no entry written to a destination.
C32_UnsupportedKindFailsFast ==
    (/\ pc["main"] = "tool_exit"
     /\ \/ LowerCase(mig.from_backend) \notin {"text", "sqlite"}
        \/ LowerCase(mig.to_backend) \notin {"text", "sqlite"}) =>
        /\ mig.status \notin {0, 1}
        /\ mig.initialized = {}
        /\ ctx.entries = <<>>
        /\ file = <<>>

\* C33: in a text backend, the id an add assigns is greater than the id of
\* every entry the backend holds, loaded or added (NextIds never removes an
\* entry).
C33_IdsIncrease ==
    [][Len(ctx'.entries) = Len(ctx.entries) + 1 =>
          \A i \in 1..Len(ctx.entries) :
              ctx'.entries[Len(ctx'.entries)].id > ctx.entries[i].id]_vars

\* An attempt outcome openai_translate retries: no transport (no curl
\* handle, a curl error, a timeout) or an HTTP status of 500 or more.
RetriedOutcome(o) == o.res \in {"no_curl", "error"} \/ o.http_code >= 500

C35_ErrorStatus ==
    \A h \in Handlers :
        xlate[h].response # NoResponse =>
            LET o == xlate[h].outcomes[Len(xlate[h].outcomes)]
            IN  /\ xlate[h].result = NoText
                /\ xlate[h].response.status \in {502, 503}
                /\ RetriedOutcome(o) =>
                      /\ Len(xlate[h].outcomes) = max_retries
                      /\ xlate[h].response = [status |-> 503, retry_after |-> TRUE]
                /\ (o.http_code >= 400 /\ o.http_code < 500) =>
                      xlate[h].response = [status |-> 502, retry_after |-> FALSE]

\* C35: a request has been answered 502 after an upstream 429 that followed
\* a retried 500.
C35_Witness ==
    \E h \in Handlers :
        /\ pc[h] = "idle"
        /\ Len(xlate[h].outcomes) = 2
        /\ xlate[h].outcomes[1].http_code = 500
        /\ xlate[h].outcomes[2].http_code = 429
        /\ xlate[h].response = [status |-> 502, retry_after |-> FALSE]

\* C36: while a lookup of the text backend that found its entry (and so
\* writes last_used) is inside the backend, every other thread is outside
\* the backend or inside a lookup: no save, stats or exclusive-mode
\* operation runs at the same time.
C36_LastUsedWriteAlone ==
    \A h \in Handlers :
        (/\ config.cache_type = "text"
         /\ pc[h] = "lookup_unlock"
         /\ cached[h] # NULL) =>
            \A th \in Threads \ {h} : RunningOp(th) \in {"none", "lookup"}

\* C37: with cache_cleanup_days >= 1 and less than cache_cleanup_days days
\* on the clock since the server started (so every external call took less
\* than cleanup_days * 86400 seconds), no handler of the text backend holds
\* a pointer to an entry that cleanup has removed.
C37_LookedUpEntryStays ==
    (/\ config.cache_type = "text"
     /\ config.cache_cleanup_days >= 1
     /\ now \div DaySeconds < config.cache_cleanup_days) =>
        \A h \in Handlers : pc[h] # "idle" => ~Dangling(h)

\* C38: on the SQLite backend, when the reconciliation of a successfully
\* translated request has reported success, the cache holds an entry for
\* the request's key with that translation.
C38_ReconciledEntryStored ==
    \A h \in Handlers :
        (/\ config.cache_type = "sqlite"
         /\ pc[h] = "reconcile_unlock"
         /\ last[h].result = 0) =>
            StoredText(ctx, HashOf(req[h])) = translated_text[h]

\* C39: an update_translation that returns failure leaves the stored
\* translated_text and count of the request's key as they were before the
\* call.
C39_FailedUpdateChangesNothing ==
    [][\A h \in Handlers :
          (/\ pc[h] = "update_translation"
           /\ pc'[h] = "reconcile_unlock"
           /\ last'[h].result # 0) =>
              /\ StoredText(ctx', HashOf(req[h])) = StoredText(ctx, HashOf(req[h]))
              /\ StoredCount(ctx', HashOf(req[h])) = StoredCount(ctx, HashOf(req[h]))]_vars

\* Where a handler stands from the start of a request to the return of
\* openai_translate.
BeforeReconcile == {"lookup", "lookup_unlock", "check", "translate",
                    "tr_attempt", "tr_return"}

\* id, count and translated_text of every entry.
CountsAndTexts(c) ==
    [i \in 1..Len(c.entries) |->
        <<c.entries[i].id, c.entries[i].count, c.entries[i].translated_text>>]

\* C40: no step a handler takes from the start of a request up to the
\* error answer for a failed external translation adds an entry or changes
\* an entry's count or translated_text.
C40_FailedRequestLeavesCache ==
    [][\A h \in Handlers :
          (/\ pc'[h] # pc[h] \/ xlate'[h] # xlate[h]
           /\ pc[h] \in BeforeReconcile \cup {"idle"}
           /\ \/ pc'[h] \in BeforeReconcile
              \/ pc'[h] = "idle" /\ last'[h].ext = Failed) =>
              CountsAndTexts(ctx') = CountsAndTexts(ctx)]_vars

\* C40: a request for a stored key has been answered with an error after
\* its external translation failed.
C40_Witness ==
    \E h \in Handlers :
        /\ pc[h] = "idle"
        /\ last[h].found
        /\ last[h].ext = Failed
        /\ last[h].response = "error"
        /\ xlate[h].response.status \in {502, 503}
        /\ Len(ctx.entries) = 1

====
